---- MODULE Spec2Model ----
(***************************************************************************)
(* Model of the selection (Loci) algebra and of the Query serialisation    *)
(* of StructureElement (mol-model/structure/structure/element.ts) and of   *)
(* the parts of the MolScript query runtime that evaluate the expressions  *)
(* StructureElement.Loci.toScriptExpression builds.                        *)
(*                                                                         *)
(* The operations are pure functions.  A behaviour of a specification      *)
(* starts in a state that holds the operands (drawn from bounded sets of   *)
(* well-formed values) and every action applies one operation to them and  *)
(* stores what it returned.  SpecHeap models the Loci and their entries as *)
(* objects at addresses, so that sharing between operands and results and  *)
(* writes into existing objects are visible.  The last sections model     *)
(* symbols of the runtime on their arguments (flags, linkFlags, logic,     *)
(* math.sub), getSaccharideComponentMap, and the viewport controls         *)
(* TrajectoryViewportControls and StateSnapshotViewportControls.           *)
(***************************************************************************)
EXTENDS Integers, Sequences, FiniteSets, TLC

VARIABLES
    a,          \* first operand Loci
    b,          \* second operand Loci
    parent,     \* name of the structure a Query is replayed against
    query,      \* the Query built by Query.fromLoci (EmptyQuery before)
    queryB,     \* a second Query, built from b, for Query.areEqual
    op,         \* the operation that ran last ("none" initially)
    rLoci,      \* Loci returned by the last operation
    rBool,      \* boolean returned by the last operation
    rUnits,     \* units of the Structure returned by Query.toStructure
    rExpr,      \* expression returned by Loci.toScriptExpression
    rBox,       \* box of the Boundary returned by Loci.getBoundary
    heap,       \* the Loci objects and their entry objects, by address
    flags,      \* the arguments of flags.hasAny / flags.hasAll: tested value and test mask
    symbolArgs, \* the arguments of a runtime symbol: positional or named, values in iteration order
    rValue,     \* number returned by the last operation
    evaluated,  \* positions of the argument thunks the last symbol called, in call order
    helperCalls,\* calls the last getBoundary made on the shared BoundaryHelper, in order
    dataState,  \* plugin.state.dataState: the ModelFromTrajectory cells and the trajectory cells
    controlsState,\* this.state of TrajectoryViewportControls
    basicData,  \* the BasicData getSaccharideComponentMap reads
    rMap,       \* the Map the last operation returned, as its entries in insertion order
    viewportState,\* this.state of StateSnapshotViewportControls
    snapshots,  \* plugin.state.snapshots.state: entries (ids), current, isPlaying
    applying,   \* ids of the snapshot Apply commands dispatched and not completed
    threw       \* whether the last operation raised an error

vars == <<a, b, parent, query, queryB, op, rLoci, rBool, rUnits, rExpr, rBox, heap, flags, symbolArgs, rValue, evaluated, helperCalls, dataState, controlsState, basicData, rMap, viewportState, snapshots, applying, threw>>

\* no arguments were passed
NoArgs == [named |-> FALSE, values |-> <<>>]

\* a data state without cells
NoDataState == [models |-> <<>>, cells |-> <<>>]

\* a BasicData without rows
NoBasicData == [pdbx_chem_comp_identifier |-> <<>>, chem_comp |-> <<>>, atom_site |-> <<>>]

\* a snapshot manager without entries
NoSnapshots == [entries |-> <<>>, current |-> "", isPlaying |-> FALSE]

\* no flags were tested
NoFlags == [tested |-> 0, test |-> 0]

-----------------------------------------------------------------------------
(* Bounds of the model. *)

\* The operands of the Loci algebra select among the first NumIdx positions
\* of a unit, the Loci a Query is built from among the first QueryIdx.
NumIdx == 2
QueryIdx == 5

-----------------------------------------------------------------------------
(* Generic helpers. *)

Range(s) == {s[i] : i \in DOMAIN s}

\* The ascending sequence of a finite set of integers.
SortedSeq(S) ==
    [i \in 1..Cardinality(S) |-> CHOOSE x \in S : Cardinality({y \in S : y < x}) = i - 1]

IsStrictlyAscending(s) == \A i \in 1..(Len(s) - 1) : s[i] < s[i + 1]

RECURSIVE InsertSorted(_, _)
InsertSorted(s, x) ==
    IF s = <<>> THEN <<x>>
    ELSE IF x < Head(s) THEN <<x>> \o s
    ELSE <<Head(s)>> \o InsertSorted(Tail(s), x)

\* Numeric sort that keeps duplicates (sortArray, typed array sort).
RECURSIVE SortNums(_)
SortNums(s) == IF s = <<>> THEN <<>> ELSE InsertSorted(SortNums(Tail(s)), Head(s))

-----------------------------------------------------------------------------
(* OrderedSet: an Interval [start, end) or a SortedArray.                  *)

IntervalOfBounds(s, e) == [kind |-> "interval", start |-> s, end |-> e, xs |-> <<>>]
IntervalOfRange(min, max) == IntervalOfBounds(min, max + 1)
IntervalEmpty == IntervalOfBounds(0, 0)
SortedArrayOf(xs) == [kind |-> "array", start |-> 0, end |-> 0, xs |-> xs]

IsInterval(o) == o.kind = "interval"
IntervalMin(o) == o.start
IntervalMax(o) == o.end - 1

OSSize(o) == IF IsInterval(o) THEN o.end - o.start ELSE Len(o.xs)
\* OrderedSet.getAt, 0-based
OSGetAt(o, i) == IF IsInterval(o) THEN o.start + i ELSE o.xs[i + 1]
\* the values in iteration order
OSValues(o) == [i \in 1..OSSize(o) |-> OSGetAt(o, i - 1)]
OSElems(o) == Range(OSValues(o))

\* OrderedSet.ofSortedArray: a contiguous array becomes an Interval
OSOfSortedArray(xs) ==
    IF Len(xs) = 0 THEN IntervalEmpty
    ELSE IF xs[Len(xs)] - xs[1] + 1 = Len(xs) THEN IntervalOfRange(xs[1], xs[Len(xs)])
    ELSE SortedArrayOf(xs)

OSUnion(x, y) == OSOfSortedArray(SortedSeq(OSElems(x) \cup OSElems(y)))
OSSubtract(x, y) == OSOfSortedArray(SortedSeq(OSElems(x) \ OSElems(y)))
OSAreIntersecting(x, y) == OSElems(x) \cap OSElems(y) # {}

\* SortedArray.areEqual, SortedRanges.areEqual: same length, same values
ArraysAreEqual(x, y) == Len(x) = Len(y) /\ \A i \in DOMAIN x : x[i] = y[i]

\* SortedArray.indexOf / OrderedSet.indexOf on a sorted array: 0-based, -1 if absent
IndexOf(xs, v) == IF \E i \in DOMAIN xs : xs[i] = v
                  THEN (CHOOSE i \in DOMAIN xs : xs[i] = v) - 1 ELSE -1

-----------------------------------------------------------------------------
(* JavaScript Map, as the sequence of its entries in insertion order.      *)

MapHas(m, k) == \E i \in DOMAIN m : m[i].k = k
MapGet(m, k) == m[CHOOSE i \in DOMAIN m : m[i].k = k].v
MapSet(m, k, v) ==
    IF MapHas(m, k) THEN [i \in DOMAIN m |-> IF m[i].k = k THEN [k |-> k, v |-> v] ELSE m[i]]
    ELSE Append(m, [k |-> k, v |-> v])
MapDelete(m, k) == SelectSeq(m, LAMBDA e : e.k # k)

-----------------------------------------------------------------------------
(* Strings are sequences of one-character strings, so that concatenation   *)
(* and template literals are computed and not assumed.                     *)

Digit(d) == <<"0", "1", "2", "3", "4", "5", "6", "7", "8", "9">>[d + 1]

\* Number.prototype.toString of a non-negative integer
RECURSIVE NumToStr(_)
NumToStr(n) == IF n < 10 THEN <<Digit(n)>> ELSE NumToStr(n \div 10) \o <<Digit(n % 10)>>

-----------------------------------------------------------------------------
(* 32-bit words as <<high 16 bits, low 16 bits>>, for the hash functions.  *)

Half == 256 * 256

RECURSIVE Xor16(_, _)
Xor16(x, y) ==
    IF x = 0 THEN y
    ELSE IF y = 0 THEN x
    ELSE (((x % 2) + (y % 2)) % 2) + 2 * Xor16(x \div 2, y \div 2)

WordOf(n) == <<(n \div Half) % Half, n % Half>>
WXor(x, y) == <<Xor16(x[1], y[1]), Xor16(x[2], y[2])>>
WAdd(x, y) == <<(x[1] + y[1] + ((x[2] + y[2]) \div Half)) % Half, (x[2] + y[2]) % Half>>
\* x * k modulo 2^32, for 0 <= k < 2^15
WMul(x, k) == <<(x[1] * k + ((x[2] * k) \div Half)) % Half, (x[2] * k) % Half>>
\* x << 24
WShl24(x) == <<(x[2] % 256) * 256, 0>>
Pow2(n) == <<1, 2, 4, 8, 16, 32, 64, 128, 256, 512, 1024, 2048, 4096, 8192, 16384, 32768>>[n + 1]
\* x >> n of a signed 32-bit value, 0 < n < 16
WSar(x, n) ==
    <<(x[1] \div Pow2(n)) + (IF x[1] >= 32768 THEN (Pow2(n) - 1) * Pow2(16 - n) ELSE 0),
      (x[2] \div Pow2(n)) + (x[1] % Pow2(n)) * Pow2(16 - n)>>

FnvOffset == <<33052, 40389>>      \* 0x811c9dc5
DeadBeef == <<57005, 48879>>       \* 0xdeadbeef

\* hashFnv32a: hval ^= array[i]; hval += (hval << 1) + (hval << 4) + (hval << 7)
\*             + (hval << 8) + (hval << 24), i.e. hval * 16777619 modulo 2^32
RECURSIVE FnvLoop(_, _, _)
FnvLoop(array, i, hval) ==
    IF i > Len(array) THEN hval
    ELSE LET h == WXor(hval, WordOf(array[i]))
         IN  FnvLoop(array, i + 1, WAdd(WMul(h, 403), WShl24(h)))

hashFnv32a(array) == FnvLoop(array, 1, FnvOffset)

\* hash2(i, j): a = 23; a = (31 * a + i) | 0; a = (31 * a + j) | 0;
\*   a = a ^ (a >> 4); a = (a ^ 0xdeadbeef) + (a << 5); a = a ^ (a >> 11)
hash2(i, j) ==
    LET a1 == WAdd(WordOf(31 * 23), i)
        a2 == WAdd(WMul(a1, 31), j)
        a3 == WXor(a2, WSar(a2, 4))
        a4 == WAdd(WXor(a3, DeadBeef), WMul(a3, 32))
    IN  WXor(a4, WSar(a4, 11))

-----------------------------------------------------------------------------
(* The structures the operations are applied to.                           *)

\* Length of the run of consecutive atoms in units 1 and 2.
RunLen == 15

NumAtoms == RunLen + 5

\* Model: atoms 0 .. NumAtoms-1; the source file lists them in reverse order.
Models == [m \in {1, 2} |-> [label |-> <<"m">>, modelNum |-> m]]

\* Segmentation: offsets[s] is the first element of segment s, the last
\* offset is the number of elements; index[e] is the segment of element e.
\* Segments are numbered from 0 and offsets is the sequence offsets[0..].
SegmentIndexOf(offsets, e) == CHOOSE sI \in 0..(Len(offsets) - 2) : offsets[sI + 1] <= e /\ e < offsets[sI + 2]
Segmentation(offsets) ==
    [offsets |-> offsets,
     index |-> [e \in 0..(offsets[Len(offsets)] - 1) |-> SegmentIndexOf(offsets, e)]]

\* model.atomicHierarchy.residueAtomSegments: residues {0,1,2}, {3,4},
\* {5,6,7}, {8,..,11}, {12,...}
residueAtomSegments == Segmentation(<<0, 3, 5, 8, 12, NumAtoms>>)
\* model.atomicHierarchy.chainAtomSegments: chains {0,..,7}, {8,9}, {10,...}
chainAtomSegments == Segmentation(<<0, 8, 10, NumAtoms>>)
\* model.coarseHierarchy.spheres.chainElementSegments and
\* model.coarseHierarchy.gaussians.chainElementSegments: chains {0,1}, {2,3,4}
spheresChainElementSegments == Segmentation(<<0, 2, 5>>)
gaussiansChainElementSegments == Segmentation(<<0, 1, 5>>)

\* unit.conformation.position(e) and unit.conformation.r(e)
position(unit, e) == <<e, (7 * e) % 5, unit.id + (e % 3)>>
radius(unit, e) == 1 + (e % 2)

\* StructureProperties.atom.sourceIndex of element e of a unit
sourceIndex(unit, e) == NumAtoms - 1 - e

Elements12 == <<3>> \o [i \in 1..RunLen |-> 4 + i]

Unit(id, invariantId, kind, model, opName, elements) ==
    [id |-> id, invariantId |-> invariantId, kind |-> kind, model |-> model,
     opName |-> opName, elements |-> elements]

\* S1: one model; unit 2 is a symmetry copy of unit 1 (same invariantId),
\*     unit 3 is another chain under the operator of unit 1.
\* S1c: a structure derived from S1 (its parent): unit 2 is filtered out.
\* S1d: a structure derived from S1 whose units hold other elements: unit 1
\*      lacks atoms 3 and 6, unit 3 lacks atom 0 and holds atom 4.
\* S2: a root of its own that holds two models.
\* S3: a root of its own that holds atomic and coarse units.
\* S3c: a structure derived from S3: unit 1 lacks atoms 3 and 6, units 3 and
\*      5 are filtered out.
Structures ==
    [S1 |-> [hashCode |-> 101, parent |-> "none",
             units |-> << Unit(1, 1, "atomic", 1, <<"A">>, Elements12),
                          Unit(2, 1, "atomic", 1, <<"B">>, Elements12),
                          Unit(3, 2, "atomic", 1, <<"A">>, <<0, 1, 2>>) >>],
     S1c |-> [hashCode |-> 102, parent |-> "S1",
              units |-> << Unit(1, 1, "atomic", 1, <<"A">>, Elements12),
                           Unit(3, 2, "atomic", 1, <<"A">>, <<0, 1, 2>>) >>],
     S1d |-> [hashCode |-> 103, parent |-> "S1",
              units |-> << Unit(1, 1, "atomic", 1, <<"A">>, <<5>> \o [i \in 1..(RunLen - 2) |-> 6 + i]),
                           Unit(3, 2, "atomic", 1, <<"A">>, <<1, 2, 4>>) >>],
     S3 |-> [hashCode |-> 301, parent |-> "none",
             units |-> << Unit(1, 1, "atomic", 1, <<"A">>, Elements12),
                          Unit(3, 2, "atomic", 1, <<"A">>, <<0, 1, 2>>),
                          Unit(4, 3, "spheres", 1, <<"A">>, <<0, 1, 3>>),
                          Unit(5, 4, "gaussians", 1, <<"A">>, <<1, 2, 4>>) >>],
     S3c |-> [hashCode |-> 302, parent |-> "S3",
              units |-> << Unit(1, 1, "atomic", 1, <<"A">>, <<5>> \o [i \in 1..(RunLen - 2) |-> 6 + i]),
                           Unit(4, 3, "spheres", 1, <<"A">>, <<0, 1, 3>>) >>],
     S2 |-> [hashCode |-> 201, parent |-> "none",
             units |-> << Unit(1, 1, "atomic", 1, <<"A">>, Elements12),
                          Unit(2, 2, "atomic", 2, <<"A">>, Elements12),
                          Unit(3, 3, "atomic", 1, <<"A">>, <<0, 1, 2>>) >>]]

StructureNames == {"S1", "S1c", "S2"}

Units(s) == Structures[s].units
UnitIds(s) == {Units(s)[i].id : i \in DOMAIN Units(s)}
\* structure.unitMap
UnitMapHas(s, id) == id \in UnitIds(s)
UnitMapGet(s, id) == Units(s)[CHOOSE i \in DOMAIN Units(s) : Units(s)[i].id = id]
\* (structure.parent || structure).hashCode
RootHash(s) ==
    IF Structures[s].parent # "none" THEN Structures[Structures[s].parent].hashCode
    ELSE Structures[s].hashCode
\* structure.models
StructureModels(s) == {Units(s)[i].model : i \in DOMAIN Units(s)}

-----------------------------------------------------------------------------
(* Loci: {structure, elements: [{unit, indices}]}; a unit of a Loci is     *)
(* named by its id and is the unit of that id of the Loci's structure.     *)

Loci(structure, elements) == [structure |-> structure, elements |-> elements]
none(structure) == Loci(structure, <<>>)
LociElement(unit, indices) == [unit |-> unit, indices |-> indices]

\* The set of (unit id, index) pairs a Loci locates.
Located(l) ==
    UNION {{<<l.elements[i].unit, x>> : x \in OSElems(l.elements[i].indices)} :
           i \in DOMAIN l.elements}
LociUnitIds(l) == {l.elements[i].unit : i \in DOMAIN l.elements}
\* the index set a Loci holds for a unit id (of its first entry for the id)
IndicesOf(l, id) ==
    OSElems(l.elements[CHOOSE i \in DOMAIN l.elements : l.elements[i].unit = id].indices)
OneEntryPerUnit(l) ==
    \A i, j \in DOMAIN l.elements : l.elements[i].unit = l.elements[j].unit => i = j
\* same unit ids and, for each unit id, the same index set
SameSelection(l, m) ==
    /\ LociUnitIds(l) = LociUnitIds(m)
    /\ \A id \in LociUnitIds(l) : IndicesOf(l, id) = IndicesOf(m, id)

-----------------------------------------------------------------------------
(* StructureElement.Loci: union, subtract, areIntersecting.                *)

\* for (const e of xs.elements) map.set(e.unit.id, e.indices)
RECURSIVE IndexMap(_, _, _)
IndexMap(elements, i, map) ==
    IF i > Len(elements) THEN map
    ELSE IndexMap(elements, i + 1, MapSet(map, elements[i].unit, elements[i].indices))

\* mutant of unionLoop: a unit both operands hold keeps only the indices of ys
RECURSIVE unionLoop_KeepsYs(_, _, _, _)
unionLoop_KeepsYs(ys, i, map, elements) ==
    IF i > Len(ys)
    THEN elements \o [j \in DOMAIN map |-> LociElement(map[j].k, map[j].v)]
    ELSE LET e == ys[i]
         IN  IF MapHas(map, e.unit)
             THEN unionLoop_KeepsYs(ys, i + 1, MapDelete(map, e.unit), Append(elements, e))
             ELSE unionLoop_KeepsYs(ys, i + 1, map, Append(elements, e))

\* mutant of unionLoop: map.delete(e.unit.id) is left out
RECURSIVE unionLoop_NoDelete(_, _, _, _)
unionLoop_NoDelete(ys, i, map, elements) ==
    IF i > Len(ys)
    THEN elements \o [j \in DOMAIN map |-> LociElement(map[j].k, map[j].v)]
    ELSE LET e == ys[i]
         IN  IF MapHas(map, e.unit)
             THEN unionLoop_NoDelete(ys, i + 1, map,
                                     Append(elements,
                                            LociElement(e.unit, OSUnion(MapGet(map, e.unit), e.indices))))
             ELSE unionLoop_NoDelete(ys, i + 1, map, Append(elements, e))

\* the loop of union over ys.elements, then map.forEach over what is left of xs
RECURSIVE unionLoop(_, _, _, _)
unionLoop(ys, i, map, elements) ==
    IF i > Len(ys)
    THEN elements \o [j \in DOMAIN map |-> LociElement(map[j].k, map[j].v)]
    ELSE LET e == ys[i]
         IN  IF MapHas(map, e.unit)
             THEN unionLoop(ys, i + 1, MapDelete(map, e.unit),
                            Append(elements,
                                   LociElement(e.unit, OSUnion(MapGet(map, e.unit), e.indices))))
             ELSE unionLoop(ys, i + 1, map, Append(elements, e))

\* mutant of unionOrdered: the empty operand is returned instead of the other
unionOrdered_ReturnsXs(xs, ys) ==
    IF Len(xs.elements) = 0 THEN xs
    ELSE Loci(xs.structure, unionLoop(ys.elements, 1, IndexMap(xs.elements, 1, <<>>), <<>>))

unionOrdered(xs, ys) ==
    IF Len(xs.elements) = 0 THEN ys
    ELSE Loci(xs.structure, unionLoop(ys.elements, 1, IndexMap(xs.elements, 1, <<>>), <<>>))

union(xs, ys) ==
    IF Len(xs.elements) > Len(ys.elements) THEN unionOrdered(ys, xs) ELSE unionOrdered(xs, ys)

\* mutant of subtractLoop: the operands of OrderedSet.subtract are swapped
RECURSIVE subtractLoop_Swapped(_, _, _, _)
subtractLoop_Swapped(xs, i, map, elements) ==
    IF i > Len(xs) THEN elements
    ELSE LET e == xs[i]
         IN  IF MapHas(map, e.unit)
             THEN LET indices == OSSubtract(MapGet(map, e.unit), e.indices)
                  IN  IF OSSize(indices) = 0
                      THEN subtractLoop_Swapped(xs, i + 1, map, elements)
                      ELSE subtractLoop_Swapped(xs, i + 1, map,
                                                Append(elements, LociElement(e.unit, indices)))
             ELSE subtractLoop_Swapped(xs, i + 1, map, Append(elements, e))

\* mutant of subtractLoop: an entry left without indices is kept
RECURSIVE subtractLoop_KeepsEmpty(_, _, _, _)
subtractLoop_KeepsEmpty(xs, i, map, elements) ==
    IF i > Len(xs) THEN elements
    ELSE LET e == xs[i]
         IN  IF MapHas(map, e.unit)
             THEN subtractLoop_KeepsEmpty(xs, i + 1, map,
                      Append(elements,
                             LociElement(e.unit, OSSubtract(e.indices, MapGet(map, e.unit)))))
             ELSE subtractLoop_KeepsEmpty(xs, i + 1, map, Append(elements, e))

RECURSIVE subtractLoop(_, _, _, _)
subtractLoop(xs, i, map, elements) ==
    IF i > Len(xs) THEN elements
    ELSE LET e == xs[i]
         IN  IF MapHas(map, e.unit)
             THEN LET indices == OSSubtract(e.indices, MapGet(map, e.unit))
                  IN  IF OSSize(indices) = 0
                      THEN subtractLoop(xs, i + 1, map, elements)
                      ELSE subtractLoop(xs, i + 1, map,
                                        Append(elements, LociElement(e.unit, indices)))
             ELSE subtractLoop(xs, i + 1, map, Append(elements, e))

subtract(xs, ys) ==
    Loci(xs.structure, subtractLoop(xs.elements, 1, IndexMap(ys.elements, 1, <<>>), <<>>))

\* mutant of areIntersectingOrdered: a unit of both operands is enough
areIntersectingOrdered_AnySharedUnit(xs, ys) ==
    IF Len(xs.elements) = 0 THEN Len(ys.elements) = 0
    ELSE \E i \in DOMAIN ys.elements : MapHas(IndexMap(xs.elements, 1, <<>>), ys.elements[i].unit)

areIntersectingOrdered(xs, ys) ==
    IF Len(xs.elements) = 0 THEN Len(ys.elements) = 0
    ELSE LET map == IndexMap(xs.elements, 1, <<>>)
         IN  \E i \in DOMAIN ys.elements :
                 /\ MapHas(map, ys.elements[i].unit)
                 /\ OSAreIntersecting(MapGet(map, ys.elements[i].unit), ys.elements[i].indices)

areIntersecting(xs, ys) ==
    IF Len(xs.elements) > Len(ys.elements)
    THEN areIntersectingOrdered(ys, xs) ELSE areIntersectingOrdered(xs, ys)

-----------------------------------------------------------------------------
(* StructureElement.Loci: extendToWholeResidues, extendToWholeChains,      *)
(* getBoundary.                                                            *)

\* Extended index lists of more than this many contiguous indices become an Interval.
IntervalCutoff == 12

\* the inner while loop: the first i at which the segment of the selected
\* element is not sI (or len)
RECURSIVE skipSegment(_, _, _, _, _)
skipSegment(segmentIndex, unit, indices, i, sI) ==
    IF i < OSSize(indices) /\ segmentIndex[unit.elements[OSGetAt(indices, i) + 1]] = sI
    THEN skipSegment(segmentIndex, unit, indices, i + 1, sI)
    ELSE i

\* the for loop: the positions in unit.elements of the elements
\* j .. _j-1 of one segment, those absent from the unit left out
RECURSIVE segmentPositions(_, _, _)
segmentPositions(unit, j, _j) ==
    IF j >= _j THEN <<>>
    ELSE (IF IndexOf(unit.elements, j) >= 0 THEN <<IndexOf(unit.elements, j)>> ELSE <<>>)
         \o segmentPositions(unit, j + 1, _j)

\* mutant of extendedIndices: the segment is not re-read after a run; every
\* run is extended to the segment of the first selected element
RECURSIVE extendedIndices_FirstSegment(_, _, _, _, _)
extendedIndices_FirstSegment(segments, unit, indices, i, newIndices) ==
    IF i >= OSSize(indices) THEN newIndices
    ELSE LET sI == segments.index[unit.elements[OSGetAt(indices, i) + 1]]
             s0 == segments.index[unit.elements[OSGetAt(indices, 0) + 1]]
         IN  extendedIndices_FirstSegment(segments, unit, indices,
                 skipSegment(segments.index, unit, indices, i + 1, sI),
                 newIndices \o segmentPositions(unit, segments.offsets[s0 + 1], segments.offsets[s0 + 2]))

\* mutant of extendedIndices: the run of selected elements of one segment is
\* not skipped, the segment is pushed once per selected element
RECURSIVE extendedIndices_NoSkip(_, _, _, _, _)
extendedIndices_NoSkip(segments, unit, indices, i, newIndices) ==
    IF i >= OSSize(indices) THEN newIndices
    ELSE LET sI == segments.index[unit.elements[OSGetAt(indices, i) + 1]]
         IN  extendedIndices_NoSkip(segments, unit, indices, i + 1,
                 newIndices \o segmentPositions(unit, segments.offsets[sI + 1], segments.offsets[sI + 2]))

\* the outer while loop of extendToWholeResidues and extendToWholeChains
RECURSIVE extendedIndices(_, _, _, _, _)
extendedIndices(segments, unit, indices, i, newIndices) ==
    IF i >= OSSize(indices) THEN newIndices
    ELSE LET sI == segments.index[unit.elements[OSGetAt(indices, i) + 1]]
         IN  extendedIndices(segments, unit, indices,
                 skipSegment(segments.index, unit, indices, i + 1, sI),
                 newIndices \o segmentPositions(unit, segments.offsets[sI + 1], segments.offsets[sI + 2]))

extendToWholeResiduesElement(s, lociElement) ==
    LET unit == UnitMapGet(s, lociElement.unit)
    IN  IF unit.kind = "atomic"
        THEN LociElement(lociElement.unit,
                         SortedArrayOf(extendedIndices(residueAtomSegments, unit,
                                                       lociElement.indices, 0, <<>>)))
        ELSE lociElement

extendToWholeResidues(loci) ==
    Loci(loci.structure,
         [k \in DOMAIN loci.elements |-> extendToWholeResiduesElement(loci.structure, loci.elements[k])])

getChainSegments(unit) ==
    CASE unit.kind = "atomic" -> chainAtomSegments
      [] unit.kind = "spheres" -> spheresChainElementSegments
      [] unit.kind = "gaussians" -> gaussiansChainElementSegments

\* mutant of toOrderedSet: an Interval from the first to the last index
\* whenever there are more than IntervalCutoff indices
toOrderedSet_NoContiguityTest(_newIndices) ==
    IF Len(_newIndices) > IntervalCutoff
    THEN IntervalOfRange(_newIndices[1], _newIndices[Len(_newIndices)])
    ELSE SortedArrayOf(_newIndices)

\* an Interval for more than IntervalCutoff contiguous indices, else a SortedArray
toOrderedSet(_newIndices) ==
    IF /\ Len(_newIndices) > IntervalCutoff
       /\ _newIndices[Len(_newIndices)] - _newIndices[1] = Len(_newIndices) - 1
    THEN IntervalOfRange(_newIndices[1], _newIndices[Len(_newIndices)])
    ELSE SortedArrayOf(_newIndices)

extendToWholeChainsElement(s, lociElement) ==
    LET unit == UnitMapGet(s, lociElement.unit)
    IN  LociElement(lociElement.unit,
                    toOrderedSet(extendedIndices(getChainSegments(unit), unit,
                                                 lociElement.indices, 0, <<>>)))

extendToWholeChains(loci) ==
    Loci(loci.structure,
         [k \in DOMAIN loci.elements |-> extendToWholeChainsElement(loci.structure, loci.elements[k])])

\* Number.MAX_VALUE, the extremes of a BoundaryHelper after reset
MaxValue == 1000
EmptyBox == [min |-> <<MaxValue, MaxValue, MaxValue>>, max |-> <<-MaxValue, -MaxValue, -MaxValue>>]

\* BoundaryHelper.boundaryStep(p, r): the box grows to hold the sphere (p, r)
Lesser(x, y) == IF x < y THEN x ELSE y
Greater(x, y) == IF x > y THEN x ELSE y
boundaryStep(box, p, r) ==
    [min |-> <<Lesser(p[1] - r, box.min[1]), Lesser(p[2] - r, box.min[2]), Lesser(p[3] - r, box.min[3])>>,
     max |-> <<Greater(p[1] + r, box.max[1]), Greater(p[2] + r, box.max[2]), Greater(p[3] + r, box.max[3])>>]

RECURSIVE boundaryOfIndices(_, _, _, _)
boundaryOfIndices(box, unit, indices, i) ==
    IF i >= OSSize(indices) THEN box
    ELSE LET eI == unit.elements[OSGetAt(indices, i) + 1]
         IN  boundaryOfIndices(boundaryStep(box, position(unit, eI), radius(unit, eI)),
                               unit, indices, i + 1)

RECURSIVE boundaryOfElements(_, _, _, _)
boundaryOfElements(box, s, elements, k) ==
    IF k > Len(elements) THEN box
    ELSE boundaryOfElements(
             boundaryOfIndices(box, UnitMapGet(s, elements[k].unit), elements[k].indices, 0),
             s, elements, k + 1)

\* Loci.getBoundary(loci).box
getBoundary(loci) == boundaryOfElements(EmptyBox, loci.structure, loci.elements, 1)

-----------------------------------------------------------------------------
(* StructureElement.Loci.remap.                                            *)

\* SortedArray.indexOfInRange(xs, v, start, end): 0-based position of v in
\* xs[start .. end-1], -1 if absent
IndexOfInRange(xs, v, start, end) ==
    IF \E p \in start..(end - 1) : xs[p + 1] = v
    THEN CHOOSE p \in start..(end - 1) : xs[p + 1] = v
    ELSE -1

\* the for loop of remap: the positions in the target unit of the elements
\* the entry selects in its own unit
RECURSIVE remapIndices(_, _, _, _, _, _)
remapIndices(eUnit, unit, indices, i, start, _indices) ==
    IF i >= OSSize(indices) THEN _indices
    ELSE LET v == OSGetAt(indices, i)
             eI == eUnit.elements[v + 1]
             uI == IndexOfInRange(unit.elements, eI, start, Len(unit.elements))
         IN  IF uI # -1
             THEN remapIndices(eUnit, unit, indices, i + 1, uI, Append(_indices, uI))
             ELSE remapIndices(eUnit, unit, indices, i + 1, start, _indices)

\* mutant of remapElement: the indices are reused whether or not the element
\* arrays are equal
remapElement_AlwaysReuse(loci, structure, e) ==
    LociElement(e.unit, e.indices)

\* the entry of the result for an entry e whose unit id the target holds
remapElement(loci, structure, e) ==
    LET eUnit == UnitMapGet(loci.structure, e.unit)
        unit == UnitMapGet(structure, e.unit)
    IN  IF ArraysAreEqual(eUnit.elements, unit.elements)
        THEN LociElement(e.unit, e.indices)
        ELSE LociElement(e.unit, toOrderedSet(remapIndices(eUnit, unit, e.indices, 0, 0, <<>>)))

RECURSIVE remapElements(_, _, _)
remapElements(loci, structure, k) ==
    IF k > Len(loci.elements) THEN <<>>
    ELSE (IF ~ UnitMapHas(structure, loci.elements[k].unit) THEN <<>>
          ELSE <<remapElement(loci, structure, loci.elements[k])>>)
         \o remapElements(loci, structure, k + 1)

remap(loci, structure) ==
    IF structure = loci.structure THEN loci
    ELSE Loci(structure, remapElements(loci, structure, 1))

-----------------------------------------------------------------------------
(* The operands: every well-formed Loci within the bounds.                 *)

\* At most this many entries in an operand Loci.
MaxEntries == 2

\* Every OrderedSet over the positions lo .. hi-1: each sorted array, each
\* Interval, and the empty Interval.
OrderedSets(n) ==
    {SortedArrayOf(SortedSeq(S)) : S \in SUBSET (0..(n - 1))}
    \cup {IntervalOfRange(p[1], p[2]) :
              p \in {q \in (0..(n - 1)) \X (0..(n - 1)) : q[1] <= q[2]}}
    \cup {IntervalEmpty}

Min(x, y) == IF x < y THEN x ELSE y

\* the entries a Loci over structure s may hold, over the first n positions
Entries(s, n) ==
    UNION {{LociElement(Units(s)[i].id, o) :
                o \in OrderedSets(Min(n, Len(Units(s)[i].elements)))} :
           i \in DOMAIN Units(s)}

\* sequences of at most k entries, no two of one unit
RECURSIVE EntrySeqs(_, _)
EntrySeqs(E, k) ==
    IF k = 0 THEN {<<>>}
    ELSE LET prev == EntrySeqs(E, k - 1)
         IN  prev \cup {Append(es, e) : <<es, e>> \in
                            {p \in prev \X E : \A i \in DOMAIN p[1] : p[1][i].unit # p[2].unit}}

LociOver(s, n, k) == {Loci(s, es) : es \in EntrySeqs(Entries(s, n), k)}

\* Two index sets that reach past the first positions: as sorted arrays,
\* Query.fromLoci encodes the first as set = [2,3,6,7,10,11,13] without ranges
\* and the second as ranges = [0,4], set = [11,13,15].
WideSets ==
    {SortedArrayOf(<<2, 3, 6, 7, 10, 11, 13>>), SortedArrayOf(<<0, 1, 2, 3, 4, 11, 13, 15>>)}

\* the Loci over structure s whose entries hold one of WideSets, on the
\* units that have that many elements
WideLoci(s, k) ==
    {Loci(s, es) : es \in EntrySeqs(
        UNION {{LociElement(Units(s)[i].id, o) : o \in WideSets} :
               i \in {j \in DOMAIN Units(s) : Len(Units(s)[j].elements) > 15}}, k)}

-----------------------------------------------------------------------------
(* Query: {hash, elements: [{groupedUnits, set, ranges}]}.                 *)

Query(hash, elements) == [hash |-> hash, elements |-> elements]
\* Query.Empty
EmptyQuery == Query(-1, <<>>)

\* SortedRanges.size: the number of values of a flat list of [lo, hi] pairs
RECURSIVE SortedRangesSize(_)
SortedRangesSize(ranges) ==
    IF Len(ranges) < 2 THEN 0
    ELSE ranges[2] - ranges[1] + 1 + SortedRangesSize(SubSeq(ranges, 3, Len(ranges)))

\* SortedRanges.forEach: the values it visits, in order.  A first value that
\* has no partner (ranges[i + 1] undefined) visits nothing: j <= undefined
\* is false.
RECURSIVE SortedRangesValues(_)
SortedRangesValues(ranges) ==
    IF Len(ranges) = 0 THEN <<>>
    ELSE IF Len(ranges) = 1 THEN <<>>
    ELSE [i \in 1..(IF ranges[2] >= ranges[1] THEN ranges[2] - ranges[1] + 1 ELSE 0)
              |-> ranges[1] + i - 1]
         \o SortedRangesValues(SubSeq(ranges, 3, Len(ranges)))

\* new Int32Array(n) after _indices[offset + i] = values[i] for every i:
\* zero where nothing was written, writes past the end are dropped
Int32Written(n, offset, values, prev) ==
    [i \in 1..n |-> IF i > offset /\ i - offset <= Len(values) THEN values[i - offset]
                    ELSE IF i <= Len(prev) THEN prev[i] ELSE 0]

\* Runs of consecutive indices longer than this become a range of a Query.
QueryRunCutoff == 2

\* end (exclusive) of the run of consecutive values of s that holds s[j - 1]
RECURSIVE RunEnd(_, _)
RunEnd(s, j) == IF j <= Len(s) /\ s[j - 1] + 1 = s[j] THEN RunEnd(s, j + 1) ELSE j

\* Query.fromLoci, the sorted array branch: runs of more than QueryRunCutoff
\* indices to ranges, the others to set
RECURSIVE fromLociRuns(_, _, _, _)
fromLociRuns(indices, start, ranges, set) ==
    IF start > Len(indices) THEN [ranges |-> ranges, set |-> set]
    ELSE LET end == RunEnd(indices, start + 1)
         IN  IF end - start > QueryRunCutoff
             THEN fromLociRuns(indices, end,
                               ranges \o <<indices[start], indices[end - 1]>>, set)
             ELSE fromLociRuns(indices, end, ranges, set \o SubSeq(indices, start, end - 1))

\* Query.fromLoci, first loop: ranges and set of one entry of the Loci
fromLociElement(s, e) ==
    LET rs == IF IsInterval(e.indices)
              THEN IF OSSize(e.indices) = 1
                   THEN [ranges |-> <<>>, set |-> <<IntervalMin(e.indices)>>]
                   ELSE [ranges |-> <<IntervalMin(e.indices), IntervalMax(e.indices)>>,
                         set |-> <<>>]
              ELSE fromLociRuns(e.indices.xs, 1, <<>>, <<>>)
    IN  [unit |-> UnitMapGet(s, e.unit), set |-> rs.set, ranges |-> rs.ranges]

RECURSIVE fromLociElements(_, _, _)
fromLociElements(s, elements, i) ==
    IF i > Len(elements) THEN <<>>
    ELSE IF OSSize(elements[i].indices) = 0 THEN fromLociElements(s, elements, i + 1)
    ELSE <<fromLociElement(s, elements[i])>> \o fromLociElements(s, elements, i + 1)

\* Query.fromLoci, second loop: elementGroups, keyed by the hash of (ranges, set)
RECURSIVE fromLociGroups(_, _, _)
fromLociGroups(es, i, elementGroups) ==
    IF i > Len(es) THEN elementGroups
    ELSE LET e == es[i]
             key == hash2(hashFnv32a(e.ranges), hashFnv32a(e.set))
         IN  IF MapHas(elementGroups, key)
             THEN LET g == MapGet(elementGroups, key)
                      gu == g.groupedUnits
                      gu2 == IF MapHas(gu, e.unit.invariantId)
                             THEN MapSet(gu, e.unit.invariantId,
                                         Append(MapGet(gu, e.unit.invariantId), e.unit.id))
                             ELSE MapSet(gu, e.unit.invariantId, <<e.unit.id>>)
                  IN  fromLociGroups(es, i + 1,
                                     MapSet(elementGroups, key,
                                            [groupedUnits |-> gu2, set |-> g.set,
                                             ranges |-> g.ranges]))
             ELSE fromLociGroups(es, i + 1,
                                 MapSet(elementGroups, key,
                                        [groupedUnits |-> MapSet(<<>>, e.unit.invariantId, <<e.unit.id>>),
                                         set |-> e.set, ranges |-> e.ranges]))

\* groupedUnits.sort((a, b) => a[0] - b[0]), a stable sort
RECURSIVE InsertByFirst(_, _)
InsertByFirst(gs, g) ==
    IF gs = <<>> THEN <<g>>
    ELSE IF g[1] < Head(gs)[1] THEN <<g>> \o gs
    ELSE <<Head(gs)>> \o InsertByFirst(Tail(gs), g)

RECURSIVE SortByFirst(_)
SortByFirst(gs) ==
    IF gs = <<>> THEN <<>>
    ELSE InsertByFirst(SortByFirst(SubSeq(gs, 1, Len(gs) - 1)), gs[Len(gs)])

\* Query.fromLoci, third loop: one QueryElement per group
QueryElementOf(g) ==
    [groupedUnits |-> SortByFirst([j \in DOMAIN g.groupedUnits |-> SortNums(g.groupedUnits[j].v)]),
     set |-> g.set, ranges |-> g.ranges]

fromLoci(loci) ==
    LET es == fromLociElements(loci.structure, loci.elements, 1)
        groups == fromLociGroups(es, 1, <<>>)
    IN  Query(RootHash(loci.structure), [j \in DOMAIN groups |-> QueryElementOf(groups[j].v)])

\* getUnitsFromIds: the units of the structure with these ids, in the order of the ids
RECURSIVE getUnitsFromIds(_, _)
getUnitsFromIds(unitIds, structure) ==
    IF unitIds = <<>> THEN <<>>
    ELSE (IF UnitMapHas(structure, Head(unitIds))
          THEN <<UnitMapGet(structure, Head(unitIds))>> ELSE <<>>)
         \o getUnitsFromIds(Tail(unitIds), structure)

\* Whether the hash check of Query.toLoci and Query.toStructure raises.  On
\* a mismatch the code evaluates `new Error('Query not compatible with given
\* structure')` without a throw: the Error is built and dropped.
hashCheckThrows(q, p) ==
    IF q.hash # -1 /\ q.hash # RootHash(p) THEN FALSE ELSE FALSE

\* mutant of toLociIndices: _indices.set(e.set, rangesSize) is left out
toLociIndices_NoSet(e) ==
    IF Len(e.ranges) = 0 THEN SortedArrayOf(e.set)
    ELSE IF Len(e.set) = 0
         THEN IF Len(e.ranges) = 2 THEN IntervalOfRange(e.ranges[1], e.ranges[2])
              ELSE SortedArrayOf(Int32Written(SortedRangesSize(e.ranges), 0,
                                              SortedRangesValues(e.ranges), <<>>))
         ELSE LET rangesSize == SortedRangesSize(e.ranges)
                  n == Len(e.set) + rangesSize
              IN  SortedArrayOf(SortNums(Int32Written(n, 0, SortedRangesValues(e.ranges), <<>>)))

\* Query.toLoci: the indices of one query element
toLociIndices(e) ==
    IF Len(e.ranges) = 0 THEN SortedArrayOf(e.set)
    ELSE IF Len(e.set) = 0
         THEN IF Len(e.ranges) = 2 THEN IntervalOfRange(e.ranges[1], e.ranges[2])
              ELSE SortedArrayOf(Int32Written(SortedRangesSize(e.ranges), 0,
                                              SortedRangesValues(e.ranges), <<>>))
         ELSE LET rangesSize == SortedRangesSize(e.ranges)
                  n == Len(e.set) + rangesSize
                  w1 == Int32Written(n, 0, SortedRangesValues(e.ranges), <<>>)
                  w2 == Int32Written(n, rangesSize, e.set, w1)
              IN  SortedArrayOf(SortNums(w2))

RECURSIVE toLociGroups(_, _, _)
toLociGroups(e, j, p) ==
    IF j > Len(e.groupedUnits) THEN <<>>
    ELSE LET units == getUnitsFromIds(e.groupedUnits[j], p)
         IN  [k \in DOMAIN units |-> LociElement(units[k].id, toLociIndices(e))]
             \o toLociGroups(e, j + 1, p)

RECURSIVE toLociElements(_, _, _)
toLociElements(q, i, p) ==
    IF i > Len(q.elements) THEN <<>>
    ELSE toLociGroups(q.elements[i], 1, p) \o toLociElements(q, i + 1, p)

toLoci(q, p) == Loci(p, toLociElements(q, 1, p))

\* unit.elements[v] stored into an Int32Array: 0 when v is past the end
ElementAt(unit, v) ==
    IF v + 1 \in DOMAIN unit.elements THEN unit.elements[v + 1] ELSE 0

ElementsAt(unit, vs) == [i \in DOMAIN vs |-> ElementAt(unit, vs[i])]

\* Query.toStructure: the elements of the child units of one group
toStructureIndices(e, unit) ==
    LET rangesSize == SortedRangesSize(e.ranges)
        n == Len(e.set) + rangesSize
    IN  IF Len(e.ranges) = 0
        THEN Int32Written(n, 0, ElementsAt(unit, e.set), <<>>)
        ELSE IF Len(e.set) = 0
        THEN Int32Written(n, 0, ElementsAt(unit, SortedRangesValues(e.ranges)), <<>>)
        ELSE LET w1 == Int32Written(n, 0, ElementsAt(unit, SortedRangesValues(e.ranges)), <<>>)
                 \* SortedRanges.forEach(e.set, ...): the set is walked as [lo, hi] pairs
                 w2 == Int32Written(n, rangesSize,
                                    ElementsAt(unit, SortedRangesValues(e.set)), w1)
             IN  SortNums(w2)

\* unit.getChild(indices)
getChild(unit, elements) == [unit EXCEPT !.elements = elements]

RECURSIVE toStructureGroups(_, _, _)
toStructureGroups(e, j, p) ==
    IF j > Len(e.groupedUnits) THEN <<>>
    ELSE LET units == getUnitsFromIds(e.groupedUnits[j], p)
         IN  [k \in DOMAIN units |-> getChild(units[k], toStructureIndices(e, units[1]))]
             \o toStructureGroups(e, j + 1, p)

RECURSIVE toStructureUnits(_, _, _)
toStructureUnits(q, i, p) ==
    IF i > Len(q.elements) THEN <<>>
    ELSE toStructureGroups(q.elements[i], 1, p) \o toStructureUnits(q, i + 1, p)

\* Query.toStructure: the units of Structure.create(units, { parent })
toStructure(q, p) == toStructureUnits(q, 1, p)

\* Query.areEqual, inner loop: groupedUnits[j..] of two elements
RECURSIVE groupsAreEqual(_, _, _)
groupsAreEqual(ga, gb, j) ==
    IF j > Len(gb) THEN TRUE
    ELSE IF ~ ArraysAreEqual(ga[j], gb[j]) THEN FALSE
    ELSE groupsAreEqual(ga, gb, j + 1)

\* mutant of elementsAreEqual: the ranges are not compared
RECURSIVE elementsAreEqual_NoRanges(_, _, _)
elementsAreEqual_NoRanges(qa, qb, i) ==
    IF i > Len(qa.elements) THEN TRUE
    ELSE LET elementA == qa.elements[i]
             elementB == qb.elements[i]
         IN  IF Len(elementA.groupedUnits) # Len(elementB.groupedUnits) THEN FALSE
             ELSE IF ~ groupsAreEqual(elementA.groupedUnits, elementB.groupedUnits, 1) THEN FALSE
             ELSE IF ~ ArraysAreEqual(elementA.set, elementB.set) THEN FALSE
             ELSE elementsAreEqual_NoRanges(qa, qb, i + 1)

\* Query.areEqual, outer loop: elements[i..] of two queries of the same length
RECURSIVE elementsAreEqual(_, _, _)
elementsAreEqual(qa, qb, i) ==
    IF i > Len(qa.elements) THEN TRUE
    ELSE LET elementA == qa.elements[i]
             elementB == qb.elements[i]
         IN  IF Len(elementA.groupedUnits) # Len(elementB.groupedUnits) THEN FALSE
             ELSE IF ~ groupsAreEqual(elementA.groupedUnits, elementB.groupedUnits, 1) THEN FALSE
             ELSE IF ~ ArraysAreEqual(elementA.set, elementB.set) THEN FALSE
             ELSE IF ~ ArraysAreEqual(elementA.ranges, elementB.ranges) THEN FALSE
             ELSE elementsAreEqual(qa, qb, i + 1)

\* mutant of areEqual: queries of different hashes are unequal
areEqual_SameHash(qa, qb) ==
    IF qa.hash # qb.hash THEN FALSE
    ELSE IF Len(qa.elements) # Len(qb.elements) THEN FALSE
    ELSE elementsAreEqual(qa, qb, 1)

areEqual(qa, qb) ==
    IF Len(qa.elements) # Len(qb.elements) THEN FALSE
    ELSE elementsAreEqual(qa, qb, 1)

-----------------------------------------------------------------------------
(* MolScript expressions, as the trees MolScriptBuilder builds.  A test is *)
(* [head, prop, values, args]; a query is [head, atomTest, chainTest,      *)
(* entityTest, args].                                                      *)

Test(head, prop, values, args) == [head |-> head, prop |-> prop, values |-> values, args |-> args]
\* a parameter that is not given (undefined)
Undefined == Test("undefined", "", <<>>, <<>>)

QueryExpr(head, atomTest, chainTest, entityTest, args) ==
    [head |-> head, atomTest |-> atomTest, chainTest |-> chainTest,
     entityTest |-> entityTest, args |-> args]

NoExpr == QueryExpr("none", Undefined, Undefined, Undefined, <<>>)

\* atomProp(p): the property of the current element of the context
atomProp(prop, unit, element) ==
    CASE prop = "sourceIndex" -> sourceIndex(unit, element)
      [] prop = "operatorName" -> unit.opName
      [] prop = "modelIndex" -> Models[unit.model].modelNum
      [] prop = "modelLabel" -> Models[unit.model].label

\* the runtime of core.rel.eq, core.rel.inRange, core.set.has (of a
\* core.type.set), core.logic.and and core.logic.or on a located element
RECURSIVE evalTest(_, _, _)
RECURSIVE logicAnd(_, _, _, _)
RECURSIVE logicOr(_, _, _, _)

logicAnd(xs, i, unit, element) ==
    IF i > Len(xs) THEN TRUE
    ELSE IF ~ evalTest(xs[i], unit, element) THEN FALSE
    ELSE logicAnd(xs, i + 1, unit, element)

logicOr(xs, i, unit, element) ==
    IF i > Len(xs) THEN FALSE
    ELSE IF evalTest(xs[i], unit, element) THEN TRUE
    ELSE logicOr(xs, i + 1, unit, element)

evalTest(t, unit, element) ==
    CASE t.head = "core.rel.eq" -> atomProp(t.prop, unit, element) = t.values[1]
      [] t.head = "core.rel.inRange" ->
             LET x == atomProp(t.prop, unit, element)
             IN  x >= t.values[1] /\ x <= t.values[2]
      [] t.head = "core.set.has" -> atomProp(t.prop, unit, element) \in Range(t.values)
      [] t.head = "core.logic.and" -> logicAnd(t.args, 1, unit, element)
      [] t.head = "core.logic.or" -> logicOr(t.args, 1, unit, element)

\* a test of atomGroups that is not given holds for every element
testHolds(t, unit, element) == t.head = "undefined" \/ evalTest(t, unit, element)

\* structureQuery.generator.atomGroups: the located elements (unit id,
\* position in unit.elements) whose entity-test, chain-test and atom-test hold
atomGroups(q, s) ==
    UNION {{<<Units(s)[u].id, i - 1>> :
                i \in {j \in DOMAIN Units(s)[u].elements :
                          /\ testHolds(q.entityTest, Units(s)[u], Units(s)[u].elements[j])
                          /\ testHolds(q.chainTest, Units(s)[u], Units(s)[u].elements[j])
                          /\ testHolds(q.atomTest, Units(s)[u], Units(s)[u].elements[j])}} :
           u \in DOMAIN Units(s)}

\* the runtime of the structure queries: generator.empty, generator.atomGroups,
\* modifier.union and combinator.merge
RECURSIVE evalQuery(_, _)
evalQuery(q, s) ==
    CASE q.head = "generator.empty" -> {}
      [] q.head = "generator.atomGroups" -> atomGroups(q, s)
      [] q.head = "modifier.union" -> evalQuery(q.args[1], s)
      [] q.head = "combinator.merge" -> UNION {evalQuery(q.args[i], s) : i \in DOMAIN q.args}

\* StructureSelection.toLoci: one entry per unit that holds a selected element
selectionToLoci(sel, s) ==
    LET held == SelectSeq(Units(s), LAMBDA u : \E x \in sel : x[1] = u.id)
    IN  Loci(s, [k \in DOMAIN held |->
                    LociElement(held[k].id,
                                OSOfSortedArray(SortedSeq({x[2] : x \in {y \in sel : y[1] = held[k].id}})))])

-----------------------------------------------------------------------------
(* StructureElement.Loci.toScriptExpression.                               *)

\* Runs of more than this many consecutive source indices become an inRange test.
ScriptRunCutoff == 12

\* UniqueArray.add
UniqueArrayAdd(xs, x) == IF x \in Range(xs) THEN xs ELSE Append(xs, x)

RECURSIVE addSourceIndices(_, _, _, _)
addSourceIndices(xs, unit, indices, i) ==
    IF i >= OSSize(indices) THEN xs
    ELSE addSourceIndices(UniqueArrayAdd(xs, sourceIndex(unit, unit.elements[OSGetAt(indices, i) + 1])),
                          unit, indices, i + 1)

\* the key of an entry: the operator name, or `${operator.name} ${model.label}
\* ${model.modelNum}` when the structure holds several models
sourceIndexKey(s, unit) ==
    IF Cardinality(StructureModels(s)) = 1 THEN unit.opName
    ELSE unit.opName \o <<" ">> \o Models[unit.model].label \o <<" ">>
         \o NumToStr(Models[unit.model].modelNum)

\* toScriptExpression, first loop: sourceIndexMap
RECURSIVE sourceIndexMapOf(_, _, _, _)
sourceIndexMapOf(s, elements, i, map) ==
    IF i > Len(elements) THEN map
    ELSE LET unit == UnitMapGet(s, elements[i].unit)
             key == sourceIndexKey(s, unit)
             old == IF MapHas(map, key) THEN MapGet(map, key)
                    ELSE [modelLabel |-> Models[unit.model].label,
                          modelIndex |-> Models[unit.model].modelNum, xs |-> <<>>]
         IN  sourceIndexMapOf(s, elements, i + 1,
                 MapSet(map, key,
                        [old EXCEPT !.xs = addSourceIndices(old.xs, unit, elements[i].indices, 0)]))

RECURSIVE getOpDataRuns(_, _, _, _)
getOpDataRuns(xs, start, ranges, set) ==
    IF start > Len(xs) THEN [ranges |-> ranges, set |-> set]
    ELSE LET end == RunEnd(xs, start + 1)
         IN  IF end - start > ScriptRunCutoff
             THEN getOpDataRuns(xs, end, ranges \o <<xs[start], xs[end - 1]>>, set)
             ELSE getOpDataRuns(xs, end, ranges, set \o SubSeq(xs, start, end - 1))

getOpData(opName, xs, multimodel, modelLabel, modelIndex) ==
    [atom |-> getOpDataRuns(SortNums(xs), 1, <<>>, <<>>),
     chain |-> [opName |-> <<opName>>],
     entity |-> [defined |-> multimodel,
                 modelLabel |-> IF multimodel THEN modelLabel ELSE <<>>,
                 modelIndex |-> IF multimodel THEN modelIndex ELSE 0]]

\* the key of an OpData in opGroups:
\* `${hash}|${d.entity ? (d.entity.modelLabel + d.entity.modelIndex) : ''}`
opGroupKey(d) ==
    <<hash2(hashFnv32a(d.atom.ranges), hashFnv32a(d.atom.set)),
      IF d.entity.defined THEN d.entity.modelLabel \o NumToStr(d.entity.modelIndex) ELSE <<>>>>

\* toScriptExpression, third loop: opGroups
RECURSIVE opGroupsOf(_, _, _)
opGroupsOf(opData, i, opGroups) ==
    IF i > Len(opData) THEN opGroups
    ELSE LET d == opData[i]
             key == opGroupKey(d)
         IN  IF MapHas(opGroups, key)
             THEN LET g == MapGet(opGroups, key)
                  IN  opGroupsOf(opData, i + 1,
                          MapSet(opGroups, key,
                                 [g EXCEPT !.chain.opName = g.chain.opName \o d.chain.opName]))
             ELSE opGroupsOf(opData, i + 1, MapSet(opGroups, key, d))

\* toScriptExpression, fourth loop: the atomGroups query of one group
opQuery(d) ==
    LET tests == (IF Len(d.atom.set) > 0
                  THEN <<Test("core.set.has", "sourceIndex", d.atom.set, <<>>)>> ELSE <<>>)
                 \o [rI \in 1..(Len(d.atom.ranges) \div 2) |->
                        Test("core.rel.inRange", "sourceIndex",
                             <<d.atom.ranges[2 * rI - 1], d.atom.ranges[2 * rI]>>, <<>>)]
        atomTest == IF Len(tests) > 1 THEN Test("core.logic.or", "", <<>>, tests)
                    ELSE IF Len(tests) = 1 THEN tests[1] ELSE Undefined
        chainTest == IF Len(d.chain.opName) > 1
                     THEN Test("core.set.has", "operatorName", d.chain.opName, <<>>)
                     ELSE Test("core.rel.eq", "operatorName", <<d.chain.opName[1]>>, <<>>)
        entityTest == IF d.entity.defined
                      THEN Test("core.logic.and", "", <<>>,
                                <<Test("core.rel.eq", "modelLabel", <<d.entity.modelLabel>>, <<>>),
                                  Test("core.rel.eq", "modelIndex", <<d.entity.modelIndex>>, <<>>)>>)
                      ELSE Undefined
    IN  QueryExpr("generator.atomGroups", atomTest, chainTest, entityTest, <<>>)

UnionOf(q) == QueryExpr("modifier.union", Undefined, Undefined, Undefined, <<q>>)

toScriptExpression(loci) ==
    IF Len(loci.elements) = 0
    THEN QueryExpr("generator.empty", Undefined, Undefined, Undefined, <<>>)
    ELSE LET multimodel == Cardinality(StructureModels(loci.structure)) > 1
             map == sourceIndexMapOf(loci.structure, loci.elements, 1, <<>>)
             opData == [j \in DOMAIN map |->
                           getOpData(map[j].k, map[j].v.xs, multimodel,
                                     map[j].v.modelLabel, map[j].v.modelIndex)]
             opGroups == opGroupsOf(opData, 1, <<>>)
             opQueries == [j \in DOMAIN opGroups |-> opQuery(opGroups[j].v)]
         IN  UnionOf(IF Len(opQueries) = 1 THEN opQueries[1]
                     ELSE QueryExpr("combinator.merge", Undefined, Undefined, Undefined,
                                    [j \in DOMAIN opQueries |-> UnionOf(opQueries[j])]))

-----------------------------------------------------------------------------
(* The Loci algebra: operands a and b over one structure.                  *)

Init ==
    /\ a \in LociOver("S1c", NumIdx, MaxEntries)
    /\ b \in LociOver("S1c", NumIdx, MaxEntries)
    /\ parent = "S1c"
    /\ query = EmptyQuery
    /\ queryB = EmptyQuery
    /\ op = "none"
    /\ rLoci = none("S1c")
    /\ rBool = FALSE
    /\ rUnits = <<>>
    /\ rExpr = NoExpr
    /\ rBox = EmptyBox
    /\ heap = <<>>
    /\ flags = NoFlags
    /\ applying = <<>>
    /\ snapshots = NoSnapshots
    /\ viewportState = [isBusy |-> FALSE, show |-> TRUE]
    /\ rMap = <<>>
    /\ basicData = NoBasicData
    /\ controlsState = [show |-> FALSE, label |-> <<>>]
    /\ dataState = NoDataState
    /\ helperCalls = <<>>
    /\ evaluated = <<>>
    /\ rValue = 0
    /\ symbolArgs = NoArgs
    /\ threw = FALSE

\* Loci.union(a, b)
Union ==
    /\ op' = "union"
    /\ rLoci' = union(a, b)
    /\ UNCHANGED <<applying, snapshots, viewportState, rMap, basicData, controlsState, dataState, helperCalls, evaluated, rValue, symbolArgs, flags, heap, rBox, a, b, parent, queryB, query, rBool, rUnits, rExpr, threw>>

\* Loci.subtract(a, b)
Subtract ==
    /\ op' = "subtract"
    /\ rLoci' = subtract(a, b)
    /\ UNCHANGED <<applying, snapshots, viewportState, rMap, basicData, controlsState, dataState, helperCalls, evaluated, rValue, symbolArgs, flags, heap, rBox, a, b, parent, queryB, query, rBool, rUnits, rExpr, threw>>

\* Loci.subtract(u, b) for u the Loci that Loci.union(a, b) returned
SubtractUnion ==
    /\ op = "union"
    /\ op' = "subtractUnion"
    /\ rLoci' = subtract(rLoci, b)
    /\ UNCHANGED <<applying, snapshots, viewportState, rMap, basicData, controlsState, dataState, helperCalls, evaluated, rValue, symbolArgs, flags, heap, rBox, a, b, parent, queryB, query, rBool, rUnits, rExpr, threw>>

\* Loci.areIntersecting(a, b)
AreIntersecting ==
    /\ op' = "areIntersecting"
    /\ rBool' = areIntersecting(a, b)
    /\ rLoci' = none("S1c")
    /\ UNCHANGED <<applying, snapshots, viewportState, rMap, basicData, controlsState, dataState, helperCalls, evaluated, rValue, symbolArgs, flags, heap, rBox, a, b, parent, queryB, query, rUnits, rExpr, threw>>

Next == Union \/ Subtract \/ SubtractUnion \/ AreIntersecting

Spec == Init /\ [][Next]_vars

-----------------------------------------------------------------------------
(* Claims about the Loci algebra, checked under Spec.                      *)

IdxOrEmpty(l, id) == IF id \in LociUnitIds(l) THEN IndicesOf(l, id) ELSE {}
UnitSeq(l) == [i \in DOMAIN l.elements |-> l.elements[i].unit]
NoEmptyEntry(l) == \A i \in DOMAIN l.elements : OSSize(l.elements[i].indices) > 0

\* C5, as claimed: Loci.areIntersecting(a, b) returns false whenever a or b
\* locates no element, in particular for areIntersecting(none(S), none(S)).
C5_AreIntersectingEmptyIsFalse ==
    (op = "areIntersecting" /\ (Located(a) = {} \/ Located(b) = {})) => rBool = FALSE

\* C6: Loci.union(a, none(S)) and Loci.union(none(S), a) have exactly the
\* unit ids and the index sets of a.
C6_UnionWithNone ==
    /\ (op = "union" /\ b = none(b.structure)) => SameSelection(rLoci, a)
    /\ (op = "union" /\ a = none(a.structure)) => SameSelection(rLoci, b)

C6_Witness ==
    /\ op = "union"
    /\ b = none(b.structure)
    /\ Len(a.elements) = 2
    /\ Located(a) # {}
    /\ SameSelection(rLoci, a)

\* C7: Loci.union(a, b) and Loci.union(b, a) have the same unit ids and, for
\* each unit id, the same index set.
C7_UnionCommutes ==
    op = "union" => SameSelection(rLoci, union(b, a))

C7_Witness ==
    /\ op = "union"
    /\ Len(a.elements) = 2
    /\ Len(b.elements) = 1
    /\ LociUnitIds(b) \subseteq LociUnitIds(a)
    /\ Located(b) # {}
    /\ ~ (Located(b) \subseteq Located(a))
    /\ UnitSeq(rLoci) = UnitSeq(union(b, a))

\* C8, as claimed: for a and b that share no (unit id, index) pair,
\* Loci.subtract(Loci.union(a, b), b) has exactly the unit ids and the index
\* sets of a.
C8_SubtractUnionIsA ==
    (op = "subtractUnion" /\ Located(a) \cap Located(b) = {}) => SameSelection(rLoci, a)

\* C8, amended: for a and b that share no (unit id, index) pair,
\* Loci.subtract(Loci.union(a, b), b) locates exactly the (unit id, index)
\* pairs of a, holds only unit ids of a, and has exactly the unit ids and
\* index sets of a when every entry of a has a non-empty index set.
C8_SubtractUnionLocatesA ==
    (op = "subtractUnion" /\ Located(a) \cap Located(b) = {}) =>
        /\ Located(rLoci) = Located(a)
        /\ LociUnitIds(rLoci) \subseteq LociUnitIds(a)
        /\ NoEmptyEntry(a) => SameSelection(rLoci, a)

C8_Witness ==
    /\ op = "subtractUnion"
    /\ Located(a) \cap Located(b) = {}
    /\ Located(a) # {}
    /\ Located(b) # {}
    /\ LociUnitIds(a) \cap LociUnitIds(b) # {}
    /\ NoEmptyEntry(a)
    /\ SameSelection(rLoci, a)

\* C9: Loci.union(a, b) of operands with at most one entry per unit id holds
\* at most one entry per unit id, holds the unit ids of a and of b, and its
\* index set for a unit id is the union of the index sets a and b hold for it
\* (an operand that does not hold the unit contributes nothing); also when an
\* operand has no elements.
C9_UnionPerUnit ==
    op = "union" =>
        /\ OneEntryPerUnit(rLoci)
        /\ LociUnitIds(rLoci) = LociUnitIds(a) \cup LociUnitIds(b)
        /\ \A id \in LociUnitIds(rLoci) :
               IndicesOf(rLoci, id) = IdxOrEmpty(a, id) \cup IdxOrEmpty(b, id)

C9_Witness ==
    /\ op = "union"
    /\ Len(a.elements) = 2
    /\ Len(b.elements) = 2
    /\ \E id \in LociUnitIds(rLoci) :
           /\ IdxOrEmpty(a, id) # {}
           /\ IdxOrEmpty(b, id) # {}
           /\ IndicesOf(rLoci, id) # IdxOrEmpty(a, id)
           /\ IndicesOf(rLoci, id) # IdxOrEmpty(b, id)

\* the entries of a that Loci.subtract(a, b) keeps: those of a unit b does
\* not hold, and those that keep an index
KeptBySubtract(x, y) ==
    SelectSeq(x.elements,
              LAMBDA e : e.unit \notin LociUnitIds(y)
                         \/ OSElems(e.indices) \ IdxOrEmpty(y, e.unit) # {})

\* C10: Loci.subtract(a, b) holds, in the entry order of a, one entry for
\* each entry of a whose unit b does not hold (that entry, unchanged) and
\* one for each entry of a whose unit b holds and whose indices minus the
\* indices of b are not empty (with that difference as its index set); it
\* holds no other entry, so no unit that only b holds.
C10_Subtract ==
    op = "subtract" =>
        LET kept == KeptBySubtract(a, b)
        IN  /\ Len(rLoci.elements) = Len(kept)
            /\ \A i \in DOMAIN kept :
                   /\ rLoci.elements[i].unit = kept[i].unit
                   /\ IF kept[i].unit \in LociUnitIds(b)
                      THEN OSElems(rLoci.elements[i].indices)
                               = OSElems(kept[i].indices) \ IdxOrEmpty(b, kept[i].unit)
                      ELSE rLoci.elements[i] = kept[i]

C10_Witness ==
    /\ op = "subtract"
    /\ Len(a.elements) = 2
    /\ Len(b.elements) = 2
    /\ Len(rLoci.elements) = 1
    /\ rLoci.elements[1].unit = a.elements[2].unit
    /\ OSElems(rLoci.elements[1].indices) # OSElems(a.elements[2].indices)

-----------------------------------------------------------------------------
(* Query serialisation: a Loci a over S1, its Query, and the replay of the *)
(* Query against S1, against S1c (derived from S1) or against S2.          *)

InitQuery ==
    /\ a \in LociOver("S1", QueryIdx, MaxEntries) \cup WideLoci("S1", MaxEntries)
    /\ b = none("S1")
    /\ parent \in StructureNames
    /\ query = EmptyQuery
    /\ queryB = EmptyQuery
    /\ op = "none"
    /\ rLoci = none("S1")
    /\ rBool = FALSE
    /\ rUnits = <<>>
    /\ rExpr = NoExpr
    /\ rBox = EmptyBox
    /\ heap = <<>>
    /\ flags = NoFlags
    /\ applying = <<>>
    /\ snapshots = NoSnapshots
    /\ viewportState = [isBusy |-> FALSE, show |-> TRUE]
    /\ rMap = <<>>
    /\ basicData = NoBasicData
    /\ controlsState = [show |-> FALSE, label |-> <<>>]
    /\ dataState = NoDataState
    /\ helperCalls = <<>>
    /\ evaluated = <<>>
    /\ rValue = 0
    /\ symbolArgs = NoArgs
    /\ threw = FALSE

\* query = Query.fromLoci(a)
FromLoci ==
    /\ op = "none"
    /\ op' = "fromLoci"
    /\ query' = fromLoci(a)
    /\ UNCHANGED <<applying, snapshots, viewportState, rMap, basicData, controlsState, dataState, helperCalls, evaluated, rValue, symbolArgs, flags, heap, rBox, a, b, parent, queryB, rLoci, rBool, rUnits, rExpr, threw>>

\* Query.toLoci(query, parent)
ToLoci ==
    /\ op \in {"none", "fromLoci"}
    /\ op' = "toLoci"
    /\ threw' = hashCheckThrows(query, parent)
    /\ rLoci' = IF threw' THEN none(parent) ELSE toLoci(query, parent)
    /\ UNCHANGED <<applying, snapshots, viewportState, rMap, basicData, controlsState, dataState, helperCalls, evaluated, rValue, symbolArgs, flags, heap, rBox, a, b, parent, queryB, query, rBool, rUnits, rExpr>>

\* Query.toStructure(query, parent)
ToStructure ==
    /\ op \in {"none", "fromLoci"}
    /\ op' = "toStructure"
    /\ threw' = hashCheckThrows(query, parent)
    /\ rUnits' = IF threw' THEN <<>> ELSE toStructure(query, parent)
    /\ UNCHANGED <<applying, snapshots, viewportState, rMap, basicData, controlsState, dataState, helperCalls, evaluated, rValue, symbolArgs, flags, heap, rBox, a, b, parent, queryB, query, rLoci, rBool, rExpr>>

NextQuery == FromLoci \/ ToLoci \/ ToStructure

SpecQuery == InitQuery /\ [][NextQuery]_vars

-----------------------------------------------------------------------------
(* Claims about the Query serialisation, checked under SpecQuery.          *)

\* query is the Query that Query.fromLoci(a) returned
QueryBuilt == query.hash # -1
HashMismatch == query.hash # -1 /\ query.hash # RootHash(parent)

\* the entries of a Loci that hold at least one index
NonEmptyEntries(l) == Loci(l.structure, SelectSeq(l.elements, LAMBDA e : OSSize(e.indices) > 0))

\* an OrderedSet is an Interval or a strictly ascending array
WellFormedOS(o) == IsInterval(o) \/ IsStrictlyAscending(o.xs)

\* C1, as claimed: Query.toLoci(query, parent) and Query.toStructure(query,
\* parent) raise an error when query.hash is neither -1 nor the hashCode of
\* the root structure of parent.
C1_HashMismatchRaises ==
    (op \in {"toLoci", "toStructure"} /\ HashMismatch) => threw

\* C2, as claimed: Query.toLoci(Query.fromLoci(L), S) for a Loci L over S has
\* exactly the unit ids of L and, for each unit id, the index set of L.
C2_RoundTripSameUnits ==
    (op = "toLoci" /\ QueryBuilt /\ parent = a.structure) => SameSelection(rLoci, a)

\* the elements the child unit of an entry must hold: unit.elements[i] for
\* the indices i of the entry, ascending
SelectedElements(s, e) ==
    SortedSeq({UnitMapGet(s, e.unit).elements[i + 1] : i \in OSElems(e.indices)})

\* C4, as claimed: Query.toStructure(Query.fromLoci(L), S) holds, for each
\* entry of L with a non-empty index set, a child unit whose elements are
\* exactly the unit's elements at the indices of the entry, strictly
\* ascending and without duplicates, whether the query element holds only a
\* set, only ranges, or both.
C4_ToStructureElements ==
    (op = "toStructure" /\ QueryBuilt /\ parent = a.structure) =>
        \A i \in DOMAIN a.elements :
            OSSize(a.elements[i].indices) > 0 =>
                \E k \in DOMAIN rUnits :
                    /\ rUnits[k].id = a.elements[i].unit
                    /\ rUnits[k].elements = SelectedElements(a.structure, a.elements[i])

\* the maximal runs of consecutive members of a set of indices, as <<first, last>>
MaximalRuns(S) ==
    {r \in S \X S : /\ r[1] <= r[2]
                    /\ \A x \in r[1]..r[2] : x \in S
                    /\ (r[1] - 1) \notin S
                    /\ (r[2] + 1) \notin S}

RECURSIVE FlattenPairs(_)
FlattenPairs(ps) == IF ps = <<>> THEN <<>> ELSE <<Head(ps)[1], Head(ps)[2]>> \o FlattenPairs(Tail(ps))

\* the runs of more than 2 members, as a flat ascending [first, last, ...] list
LongRuns(S) ==
    LET long == {r \in MaximalRuns(S) : r[2] - r[1] + 1 > 2}
        firsts == SortedSeq({r[1] : r \in long})
    IN  FlattenPairs([k \in DOMAIN firsts |-> CHOOSE r \in long : r[1] = firsts[k]])

\* the members of the runs of 1 or 2 members, ascending
ShortRunMembers(S) ==
    SortedSeq(UNION {r[1]..r[2] : r \in {q \in MaximalRuns(S) : q[2] - q[1] + 1 <= 2}})

\* the query element that lists a unit id in its groupedUnits
ElementsListing(q, id) ==
    {k \in DOMAIN q.elements :
        \E j \in DOMAIN q.elements[k].groupedUnits : id \in Range(q.elements[k].groupedUnits[j])}

\* C11, as claimed: in Query.fromLoci(L), for every entry with a non-empty
\* index set, held as an Interval or as a sorted array, every maximal run of
\* more than 2 consecutive indices is one [first, last] pair of ranges and
\* every index of a run of 1 or 2 members is a member of set.
C11_RunEncoding ==
    (op = "fromLoci") =>
        \A i \in DOMAIN a.elements :
            OSSize(a.elements[i].indices) > 0 =>
                \E k \in ElementsListing(query, a.elements[i].unit) :
                    /\ query.elements[k].ranges = LongRuns(OSElems(a.elements[i].indices))
                    /\ query.elements[k].set = ShortRunMembers(OSElems(a.elements[i].indices))

\* the indices a query element encodes: those of its ranges and those of its set
RangeIndices(e) == UNION {e.ranges[2 * r - 1]..e.ranges[2 * r] : r \in 1..(Len(e.ranges) \div 2)}
EncodedIndices(e) == RangeIndices(e) \cup Range(e.set)

\* C12, as claimed: in Query.fromLoci(L) every unit id listed in the
\* groupedUnits of an element had in L exactly the index set that the
\* element's set and ranges encode, and set and ranges share no index.
C12_GroupedUnitsShareIndices ==
    (op = "fromLoci") =>
        \A k \in DOMAIN query.elements :
            /\ RangeIndices(query.elements[k]) \cap Range(query.elements[k].set) = {}
            /\ \A j \in DOMAIN query.elements[k].groupedUnits :
                   \A id \in Range(query.elements[k].groupedUnits[j]) :
                       /\ id \in LociUnitIds(a)
                       /\ IndicesOf(a, id) = EncodedIndices(query.elements[k])

\* the unit ids listed in the groups of a query element that parent holds
ListedIn(e, p) ==
    {id \in UNION {Range(e.groupedUnits[j]) : j \in DOMAIN e.groupedUnits} : UnitMapHas(p, id)}

RECURSIVE SumOver(_, _)
SumOver(f, S) == IF S = {} THEN 0 ELSE LET x == CHOOSE y \in S : TRUE IN f[x] + SumOver(f, S \ {x})

\* C13, as claimed: Query.toLoci(query, parent) holds, for each group of each
\* query element, an entry for every unit of parent that has the invariantId
\* of the group, with the indices the element's ranges and set encode.
C13_EveryUnitOfInvariantId ==
    (op = "toLoci" /\ ~ HashMismatch) =>
        \A k \in DOMAIN query.elements :
            \A j \in DOMAIN query.elements[k].groupedUnits :
                \A u \in DOMAIN Units(parent) :
                    Units(parent)[u].invariantId
                        = UnitMapGet(a.structure, query.elements[k].groupedUnits[j][1]).invariantId
                    => \E i \in DOMAIN rLoci.elements :
                           /\ rLoci.elements[i].unit = Units(parent)[u].id
                           /\ OSElems(rLoci.elements[i].indices) = EncodedIndices(query.elements[k])

\* C13, amended: Query.toLoci(query, parent), for a query whose hash is -1 or
\* that of the root of parent, holds exactly one entry for every unit id that
\* is listed in a group of a query element and exists in parent (the listed
\* ids of parent, not every unit of parent with the group's invariantId),
\* with exactly the indices the element's ranges and set encode, as an
\* Interval or a strictly ascending array; listed ids that parent does not
\* hold yield no entry.
C13_ListedUnitsOfParent ==
    (op = "toLoci" /\ ~ HashMismatch) =>
        /\ {<<rLoci.elements[i].unit, OSElems(rLoci.elements[i].indices)>> : i \in DOMAIN rLoci.elements}
               = UNION {{<<id, EncodedIndices(query.elements[k])>> : id \in ListedIn(query.elements[k], parent)} :
                        k \in DOMAIN query.elements}
        /\ Len(rLoci.elements)
               = SumOver([k \in DOMAIN query.elements |-> Cardinality(ListedIn(query.elements[k], parent))],
                         DOMAIN query.elements)
        /\ \A i \in DOMAIN rLoci.elements : WellFormedOS(rLoci.elements[i].indices)
        /\ rLoci.structure = parent

\* a group of two symmetry copies with ranges and set, replayed against the
\* derived structure that holds only one of them
C13_Witness ==
    /\ op = "toLoci"
    /\ ~ HashMismatch
    /\ parent = "S1c"
    /\ Len(rLoci.elements) = 1
    /\ \E k \in DOMAIN query.elements :
           /\ Len(query.elements[k].ranges) > 0
           /\ Len(query.elements[k].set) > 0
           /\ \E j \in DOMAIN query.elements[k].groupedUnits :
                  Len(query.elements[k].groupedUnits[j]) = 2

-----------------------------------------------------------------------------
(* Script expressions: a Loci a over the one-model structure S1 or over    *)
(* the two-model structure S2, the expression toScriptExpression builds    *)
(* for it, and the selection the expression makes in the same structure.   *)

\* the index sets of the operands: those over the first NumIdx positions
\* and the Intervals that reach the end of the unit
ScriptSets(unit) ==
    OrderedSets(Min(NumIdx, Len(unit.elements)))
    \cup {IntervalOfRange(lo, Len(unit.elements) - 1) : lo \in 0..1}

ScriptEntries(s) ==
    UNION {{LociElement(Units(s)[i].id, o) : o \in ScriptSets(Units(s)[i])} :
           i \in DOMAIN Units(s)}

LociOfEntries(s, E) == {Loci(s, es) : es \in EntrySeqs(E, MaxEntries)}

InitScript ==
    /\ a \in UNION {LociOfEntries(s, ScriptEntries(s)) : s \in {"S1", "S2"}}
    /\ b = none(a.structure)
    /\ parent = a.structure
    /\ query = EmptyQuery
    /\ queryB = EmptyQuery
    /\ op = "none"
    /\ rLoci = none(a.structure)
    /\ rBool = FALSE
    /\ rUnits = <<>>
    /\ rExpr = NoExpr
    /\ rBox = EmptyBox
    /\ heap = <<>>
    /\ flags = NoFlags
    /\ applying = <<>>
    /\ snapshots = NoSnapshots
    /\ viewportState = [isBusy |-> FALSE, show |-> TRUE]
    /\ rMap = <<>>
    /\ basicData = NoBasicData
    /\ controlsState = [show |-> FALSE, label |-> <<>>]
    /\ dataState = NoDataState
    /\ helperCalls = <<>>
    /\ evaluated = <<>>
    /\ rValue = 0
    /\ symbolArgs = NoArgs
    /\ threw = FALSE

\* rExpr = Loci.toScriptExpression(a)
ToScriptExpression ==
    /\ op = "none"
    /\ op' = "toScriptExpression"
    /\ rExpr' = toScriptExpression(a)
    /\ UNCHANGED <<applying, snapshots, viewportState, rMap, basicData, controlsState, dataState, helperCalls, evaluated, rValue, symbolArgs, flags, heap, rBox, a, b, parent, queryB, query, rLoci, rBool, rUnits, threw>>

\* the expression is compiled and run against the structure of a, and the
\* selection is turned into a Loci
RunExpression ==
    /\ op = "toScriptExpression"
    /\ op' = "runExpression"
    /\ rLoci' = selectionToLoci(evalQuery(rExpr, parent), parent)
    /\ UNCHANGED <<applying, snapshots, viewportState, rMap, basicData, controlsState, dataState, helperCalls, evaluated, rValue, symbolArgs, flags, heap, rBox, a, b, parent, queryB, query, rBool, rUnits, rExpr, threw>>

NextScript == ToScriptExpression \/ RunExpression

SpecScript == InitScript /\ [][NextScript]_vars

\* C3, as claimed: running the expression of toScriptExpression(L) against
\* L.structure selects exactly the elements of L, the same unit ids with the
\* same index sets, over one-model and over several-model structures.
C3_ScriptRoundTrip ==
    op = "runExpression" => SameSelection(rLoci, a)

-----------------------------------------------------------------------------
(* Query.areEqual: two Loci a and b over S1, their queries, and the        *)
(* comparison of the two queries (or of Query.Empty before they are built).*)

\* index sets of the operands: set only, ranges only, ranges and set
EqualSets ==
    {SortedArrayOf(<<0>>), SortedArrayOf(<<4>>), IntervalOfRange(0, 2), SortedArrayOf(<<0, 1, 2, 4>>)}

EqualLoci ==
    {Loci("S1", es) : es \in EntrySeqs(
        UNION {{LociElement(Units("S1")[i].id, o) : o \in EqualSets} : i \in DOMAIN Units("S1")},
        MaxEntries)}

\* Loci over S3, another root, on the units S3 has in common with S1
EqualLociOther ==
    {Loci("S3", es) : es \in EntrySeqs(
        {LociElement(u, o) : u \in {1, 3}, o \in EqualSets}, MaxEntries)}

InitEqual ==
    /\ a \in EqualLoci
    /\ b \in EqualLoci \cup EqualLociOther
    /\ parent = "S1"
    /\ query = EmptyQuery
    /\ queryB = EmptyQuery
    /\ op = "none"
    /\ rLoci = none("S1")
    /\ rBool = FALSE
    /\ rUnits = <<>>
    /\ rExpr = NoExpr
    /\ rBox = EmptyBox
    /\ heap = <<>>
    /\ flags = NoFlags
    /\ applying = <<>>
    /\ snapshots = NoSnapshots
    /\ viewportState = [isBusy |-> FALSE, show |-> TRUE]
    /\ rMap = <<>>
    /\ basicData = NoBasicData
    /\ controlsState = [show |-> FALSE, label |-> <<>>]
    /\ dataState = NoDataState
    /\ helperCalls = <<>>
    /\ evaluated = <<>>
    /\ rValue = 0
    /\ symbolArgs = NoArgs
    /\ threw = FALSE

\* queryB = Query.fromLoci(b)
FromLociB ==
    /\ op = "fromLoci"
    /\ op' = "fromLociB"
    /\ queryB' = fromLoci(b)
    /\ UNCHANGED <<applying, snapshots, viewportState, rMap, basicData, controlsState, dataState, helperCalls, evaluated, rValue, symbolArgs, flags, heap, rBox, a, b, parent, query, rLoci, rBool, rUnits, rExpr, threw>>

\* rBool = Query.areEqual(query, queryB)
AreEqual ==
    /\ op \in {"none", "fromLoci", "fromLociB"}
    /\ op' = "areEqual"
    /\ rBool' = areEqual(query, queryB)
    /\ UNCHANGED <<applying, snapshots, viewportState, rMap, basicData, controlsState, dataState, helperCalls, evaluated, rValue, symbolArgs, flags, heap, rBox, a, b, parent, query, queryB, rLoci, rUnits, rExpr, threw>>

NextEqual == FromLoci \/ FromLociB \/ AreEqual

SpecEqual == InitEqual /\ [][NextEqual]_vars

\* the elements of one query are those of the other in another order
Reordered(qa, qb) ==
    /\ Len(qa.elements) = Len(qb.elements)
    /\ qa.elements # qb.elements
    /\ \E f \in [DOMAIN qa.elements -> DOMAIN qa.elements] :
           /\ \A i, j \in DOMAIN qa.elements : f[i] = f[j] => i = j
           /\ \A i \in DOMAIN qa.elements : qa.elements[i] = qb.elements[f[i]]

\* C14: Query.areEqual(a, b) is true exactly when a and b have the same
\* number of elements and at every position the same sequence of
\* groupedUnits, the same set and the same ranges; two queries with the same
\* elements in a different order compare unequal.
C14_AreEqualPositional ==
    (op = "areEqual") =>
        /\ rBool = (/\ Len(query.elements) = Len(queryB.elements)
                    /\ \A i \in DOMAIN query.elements :
                           /\ i \in DOMAIN queryB.elements
                           /\ query.elements[i].groupedUnits = queryB.elements[i].groupedUnits
                           /\ query.elements[i].set = queryB.elements[i].set
                           /\ query.elements[i].ranges = queryB.elements[i].ranges)
        /\ Reordered(query, queryB) => ~ rBool

\* the same selection, encoded with the elements in the other order
C14_Witness ==
    /\ op = "areEqual"
    /\ SameSelection(a, b)
    /\ Len(query.elements) = 2
    /\ Reordered(query, queryB)
    /\ ~ rBool

\* two queries that differ in ranges only
C14_WitnessRanges ==
    /\ op = "areEqual"
    /\ Len(query.elements) = 1
    /\ Len(queryB.elements) = 1
    /\ query.elements[1].groupedUnits = queryB.elements[1].groupedUnits
    /\ query.elements[1].set = queryB.elements[1].set
    /\ query.elements[1].ranges # queryB.elements[1].ranges
    /\ ~ rBool

-----------------------------------------------------------------------------
(* Extension to whole residues and chains, and boundaries: a Loci a over   *)
(* S3, which holds atomic units and coarse units.                          *)

\* positions the sorted arrays of the operands are drawn from: in unit 1
\* one in the second residue, two in the third, one in each of the others
ProbePositions == {0, 1, 2, 4, 8}

ExtendSets(unit) ==
    {SortedArrayOf(SortedSeq(S)) : S \in SUBSET {p \in ProbePositions : p < Len(unit.elements)}}
    \cup {IntervalOfRange(p[1], p[2]) :
              p \in {q \in {0, 1} \X {Min(4, Len(unit.elements) - 1), Len(unit.elements) - 1} : q[1] <= q[2]}}
    \cup {IntervalEmpty}

ExtendLoci ==
    {Loci("S3", es) : es \in EntrySeqs(
        UNION {{LociElement(Units("S3")[i].id, o) : o \in ExtendSets(Units("S3")[i])} :
               i \in DOMAIN Units("S3")},
        MaxEntries)}

InitExtend ==
    /\ a \in ExtendLoci
    /\ b = none("S3")
    /\ parent = "S3"
    /\ query = EmptyQuery
    /\ queryB = EmptyQuery
    /\ op = "none"
    /\ rLoci = none("S3")
    /\ rBool = FALSE
    /\ rUnits = <<>>
    /\ rExpr = NoExpr
    /\ rBox = EmptyBox
    /\ heap = <<>>
    /\ flags = NoFlags
    /\ applying = <<>>
    /\ snapshots = NoSnapshots
    /\ viewportState = [isBusy |-> FALSE, show |-> TRUE]
    /\ rMap = <<>>
    /\ basicData = NoBasicData
    /\ controlsState = [show |-> FALSE, label |-> <<>>]
    /\ dataState = NoDataState
    /\ helperCalls = <<>>
    /\ evaluated = <<>>
    /\ rValue = 0
    /\ symbolArgs = NoArgs
    /\ threw = FALSE

\* rLoci = Loci.extendToWholeResidues(a)
ExtendToWholeResidues ==
    /\ op = "none"
    /\ op' = "extendToWholeResidues"
    /\ rLoci' = extendToWholeResidues(a)
    /\ UNCHANGED <<applying, snapshots, viewportState, rMap, basicData, controlsState, dataState, helperCalls, evaluated, rValue, symbolArgs, flags, heap, a, b, parent, query, queryB, rBool, rUnits, rExpr, rBox, threw>>

\* rLoci = Loci.extendToWholeChains(a)
ExtendToWholeChains ==
    /\ op = "none"
    /\ op' = "extendToWholeChains"
    /\ rLoci' = extendToWholeChains(a)
    /\ UNCHANGED <<applying, snapshots, viewportState, rMap, basicData, controlsState, dataState, helperCalls, evaluated, rValue, symbolArgs, flags, heap, a, b, parent, query, queryB, rBool, rUnits, rExpr, rBox, threw>>

\* one call on boundaryHelper; unit and element name the located element
\* whose position and radius are passed (0, 0 for the other calls)
HelperCall(name, unit, element) == [call |-> name, unit |-> unit, element |-> element]

\* the inner for loop of either pass: one call per index of the entry
RECURSIVE callsOfIndices(_, _, _, _, _)
callsOfIndices(name, unit, indices, i, log) ==
    IF i >= OSSize(indices) THEN log
    ELSE callsOfIndices(name, unit, indices, i + 1,
                        Append(log, HelperCall(name, unit.id, unit.elements[OSGetAt(indices, i) + 1])))

\* the outer for loop of either pass
RECURSIVE callsOfElements(_, _, _, _, _)
callsOfElements(name, s, elements, k, log) ==
    IF k > Len(elements) THEN log
    ELSE callsOfElements(name, s, elements, k + 1,
                         callsOfIndices(name, UnitMapGet(s, elements[k].unit), elements[k].indices, 0, log))

\* mutant of getBoundaryCalls: finishBoundaryStep is called before the first pass
getBoundaryCalls_FinishFirst(loci) ==
    callsOfElements("extendStep", loci.structure, loci.elements, 1,
        callsOfElements("boundaryStep", loci.structure, loci.elements, 1,
            <<HelperCall("reset", 0, 0), HelperCall("finishBoundaryStep", 0, 0)>>))
    \o <<HelperCall("getBox", 0, 0), HelperCall("getSphere", 0, 0)>>

\* the calls of Loci.getBoundary(loci) on boundaryHelper
getBoundaryCalls(loci) ==
    callsOfElements("extendStep", loci.structure, loci.elements, 1,
        Append(callsOfElements("boundaryStep", loci.structure, loci.elements, 1,
                               <<HelperCall("reset", 0, 0)>>),
               HelperCall("finishBoundaryStep", 0, 0)))
    \o <<HelperCall("getBox", 0, 0), HelperCall("getSphere", 0, 0)>>

\* rBox = Loci.getBoundary(a).box
GetBoundary ==
    /\ op = "none"
    /\ op' = "getBoundary"
    /\ rBox' = getBoundary(a)
    /\ helperCalls' = getBoundaryCalls(a)
    /\ UNCHANGED <<applying, snapshots, viewportState, rMap, basicData, controlsState, dataState, evaluated, rValue, symbolArgs, flags, heap, a, b, parent, query, queryB, rLoci, rBool, rUnits, rExpr, threw>>

\* rBox = Loci.getBoundary(rLoci).box, for the Loci an extension returned
GetBoundaryOfExtended ==
    /\ op \in {"extendToWholeResidues", "extendToWholeChains"}
    /\ op' = IF op = "extendToWholeResidues" THEN "getBoundaryOfResidues" ELSE "getBoundaryOfChains"
    /\ rBox' = getBoundary(rLoci)
    /\ helperCalls' = getBoundaryCalls(rLoci)
    /\ UNCHANGED <<applying, snapshots, viewportState, rMap, basicData, controlsState, dataState, evaluated, rValue, symbolArgs, flags, heap, a, b, parent, query, queryB, rLoci, rBool, rUnits, rExpr, threw>>

NextExtend == ExtendToWholeResidues \/ ExtendToWholeChains \/ GetBoundary \/ GetBoundaryOfExtended

SpecExtend == InitExtend /\ [][NextExtend]_vars

\* the positions in unit.elements of the elements that lie in a segment
\* holding an element the entry selects
WholeSegments(segments, unit, indices) ==
    LET selected == {segments.index[unit.elements[i + 1]] : i \in OSElems(indices)}
    IN  {p \in 0..(Len(unit.elements) - 1) : segments.index[unit.elements[p + 1]] \in selected}

\* C15: extendToWholeResidues(L) holds one entry per entry of L, in the same
\* order; for an atomic unit its indices are exactly the positions of the
\* unit's elements that lie in a residue with a selected element, strictly
\* ascending without duplicates; the entry of a coarse unit is that of L.
C15_WholeResidues ==
    (op = "extendToWholeResidues") =>
        /\ Len(rLoci.elements) = Len(a.elements)
        /\ rLoci.structure = a.structure
        /\ \A k \in DOMAIN a.elements :
               LET unit == UnitMapGet(a.structure, a.elements[k].unit)
               IN  IF unit.kind = "atomic"
                   THEN /\ rLoci.elements[k].unit = a.elements[k].unit
                        /\ OSValues(rLoci.elements[k].indices)
                               = SortedSeq(WholeSegments(residueAtomSegments, unit, a.elements[k].indices))
                   ELSE rLoci.elements[k] = a.elements[k]

\* two residues selected in one atomic entry, one of them with an atom that
\* the unit does not hold, next to a coarse entry
C15_Witness ==
    /\ op = "extendToWholeResidues"
    /\ Len(a.elements) = 2
    /\ \E k \in DOMAIN a.elements :
           /\ a.elements[k].unit = 1
           /\ OSElems(a.elements[k].indices) = {0, 1, 2}
           /\ OSValues(rLoci.elements[k].indices) = <<0, 1, 2, 3>>
    /\ \E k \in DOMAIN a.elements :
           /\ UnitMapGet(a.structure, a.elements[k].unit).kind = "spheres"
           /\ OSSize(a.elements[k].indices) > 0

\* box `outer` contains box `inner`
BoxContains(outer, inner) ==
    \A c \in 1..3 : outer.min[c] <= inner.min[c] /\ inner.max[c] <= outer.max[c]

\* C16: every (unit id, index) that L locates is located by
\* extendToWholeResidues(L), and the box of getBoundary of the extended Loci
\* contains the box of getBoundary(L).
C16_ExtensionNeverShrinks ==
    (op = "getBoundaryOfResidues") =>
        /\ Located(a) \subseteq Located(rLoci)
        /\ BoxContains(rBox, getBoundary(a))

\* an extension that adds elements and makes the box larger
C16_Witness ==
    /\ op = "getBoundaryOfResidues"
    /\ Located(a) # {}
    /\ Located(a) # Located(rLoci)
    /\ rBox # getBoundary(a)
    /\ BoxContains(rBox, getBoundary(a))

\* C17: extendToWholeChains(L) holds one entry per entry of L, in the same
\* order; for an atomic and for a coarse unit its indices are exactly the
\* positions of the unit's elements that lie in a chain segment (of the
\* unit's kind) with a selected element, strictly ascending without
\* duplicates, as an Interval or as a sorted array.
C17_WholeChains ==
    (op = "extendToWholeChains") =>
        /\ Len(rLoci.elements) = Len(a.elements)
        /\ rLoci.structure = a.structure
        /\ \A k \in DOMAIN a.elements :
               LET unit == UnitMapGet(a.structure, a.elements[k].unit)
               IN  /\ rLoci.elements[k].unit = a.elements[k].unit
                   /\ WellFormedOS(rLoci.elements[k].indices)
                   /\ OSValues(rLoci.elements[k].indices)
                          = SortedSeq(WholeSegments(getChainSegments(unit), unit, a.elements[k].indices))

\* the three chains of unit 1 selected, returned as an Interval, next to an entry
\* of a coarse unit whose chain has an element the unit does not hold
C17_Witness ==
    /\ op = "extendToWholeChains"
    /\ Len(a.elements) = 2
    /\ \E k \in DOMAIN a.elements :
           /\ a.elements[k].unit = 1
           /\ OSSize(a.elements[k].indices) = 3
           /\ IsInterval(rLoci.elements[k].indices)
           /\ OSSize(rLoci.elements[k].indices) = Len(Elements12)
    /\ \E k \in DOMAIN a.elements :
           /\ a.elements[k].unit = 4
           /\ OSElems(a.elements[k].indices) = {2}
           /\ ~ IsInterval(rLoci.elements[k].indices)
           /\ OSValues(rLoci.elements[k].indices) = <<2>>

-----------------------------------------------------------------------------
(* Loci.remap: a Loci a over S1, remapped to S1 itself, to S1c (the same   *)
(* element arrays, unit 2 filtered out) or to S1d (other element arrays).  *)

RemapLoci ==
    {Loci("S1", es) : es \in EntrySeqs(
        UNION {{LociElement(Units("S1")[i].id, o) : o \in ExtendSets(Units("S1")[i])} :
               i \in DOMAIN Units("S1")},
        MaxEntries)}

InitRemap ==
    /\ a \in RemapLoci
    /\ b = none("S1")
    /\ parent \in {"S1", "S1c", "S1d"}
    /\ query = EmptyQuery
    /\ queryB = EmptyQuery
    /\ op = "none"
    /\ rLoci = none("S1")
    /\ rBool = FALSE
    /\ rUnits = <<>>
    /\ rExpr = NoExpr
    /\ rBox = EmptyBox
    /\ heap = <<>>
    /\ flags = NoFlags
    /\ applying = <<>>
    /\ snapshots = NoSnapshots
    /\ viewportState = [isBusy |-> FALSE, show |-> TRUE]
    /\ rMap = <<>>
    /\ basicData = NoBasicData
    /\ controlsState = [show |-> FALSE, label |-> <<>>]
    /\ dataState = NoDataState
    /\ helperCalls = <<>>
    /\ evaluated = <<>>
    /\ rValue = 0
    /\ symbolArgs = NoArgs
    /\ threw = FALSE

\* rLoci = Loci.remap(a, parent)
Remap ==
    /\ op = "none"
    /\ op' = "remap"
    /\ rLoci' = remap(a, parent)
    /\ UNCHANGED <<applying, snapshots, viewportState, rMap, basicData, controlsState, dataState, helperCalls, evaluated, rValue, symbolArgs, flags, heap, a, b, parent, query, queryB, rBool, rUnits, rExpr, rBox, threw>>

\* rLoci = Loci.remap(rLoci, a.structure): the result remapped to the
\* structure it came from
RemapBack ==
    /\ op = "remap"
    /\ op' = "remapBack"
    /\ rLoci' = remap(rLoci, a.structure)
    /\ UNCHANGED <<applying, snapshots, viewportState, rMap, basicData, controlsState, dataState, helperCalls, evaluated, rValue, symbolArgs, flags, heap, a, b, parent, query, queryB, rBool, rUnits, rExpr, rBox, threw>>

NextRemap == Remap \/ RemapBack

SpecRemap == InitRemap /\ [][NextRemap]_vars

\* the positions in the target unit of the elements an entry selects in its
\* own unit, those the target unit does not hold left out
RemappedPositions(source, target, e) ==
    LET eUnit == UnitMapGet(source, e.unit)
        unit == UnitMapGet(target, e.unit)
    IN  {p \in 0..(Len(unit.elements) - 1) :
            \E i \in OSElems(e.indices) : eUnit.elements[i + 1] = unit.elements[p + 1]}

\* the entries of a Loci whose unit id a structure holds
EntriesIn(l, s) == SelectSeq(l.elements, LAMBDA e : UnitMapHas(s, e.unit))

\* C18: Loci.remap(loci, structure) is loci itself when structure is
\* loci.structure; otherwise it holds one entry, in order, for each entry
\* whose unit id exists in structure, with exactly the positions in the
\* target unit of the selected elements the target unit holds (the entry's
\* own indices when the element arrays are equal), strictly ascending;
\* entries of absent units and absent elements are dropped.
C18_Remap ==
    (op = "remap") =>
        IF parent = a.structure THEN rLoci = a
        ELSE /\ rLoci.structure = parent
             /\ Len(rLoci.elements) = Len(EntriesIn(a, parent))
             /\ \A k \in DOMAIN rLoci.elements :
                    LET e == EntriesIn(a, parent)[k]
                    IN  /\ rLoci.elements[k].unit = e.unit
                        /\ WellFormedOS(rLoci.elements[k].indices)
                        /\ OSElems(rLoci.elements[k].indices) = RemappedPositions(a.structure, parent, e)
                        /\ UnitMapGet(a.structure, e.unit).elements = UnitMapGet(parent, e.unit).elements
                               => rLoci.elements[k].indices = e.indices

\* remap to the structure with other element arrays: an entry of unit 2 is
\* dropped and an entry of unit 1 loses the selected atoms 3 and 6
C18_Witness ==
    /\ op = "remap"
    /\ parent = "S1d"
    /\ Len(a.elements) = 2
    /\ Len(rLoci.elements) = 1
    /\ rLoci.elements[1].unit = 1
    /\ \E k \in DOMAIN a.elements :
           /\ a.elements[k].unit = 1
           /\ OSElems(a.elements[k].indices) = {0, 1, 2, 4}
    /\ OSValues(rLoci.elements[1].indices) = <<0, 2>>

-----------------------------------------------------------------------------
(* Loci as objects.  The heap is the sequence of the objects created so    *)
(* far; the address of an object is its position.  A Loci object holds its *)
(* structure and its elements array (the addresses of its entry objects);  *)
(* an entry object holds its unit id and its indices.  An operation either *)
(* returns an object that exists or creates objects at fresh addresses;    *)
(* the entries of a created Loci are created or are entry objects of an    *)
(* operand, as the code pushes a new object literal or the operand's entry.*)

LociObject(structure, elements) ==
    [kind |-> "loci", structure |-> structure, elements |-> elements,
     unit |-> 0, indices |-> IntervalEmpty]
EntryObject(unit, indices) ==
    [kind |-> "entry", structure |-> "", elements |-> <<>>, unit |-> unit, indices |-> indices]

\* the Loci value an address denotes
Deref(h, p) ==
    Loci(h[p].structure,
         [k \in DOMAIN h[p].elements |-> LociElement(h[h[p].elements[k]].unit, h[h[p].elements[k]].indices)])

LociAddresses(h) == {p \in DOMAIN h : h[p].kind = "loci"}

\* one slot of the elements array an operation builds: an entry object of an
\* operand (elements[elements.length] = e) or a new object ({ unit, indices })
Shared(address) == [shared |-> TRUE, address |-> address, unit |-> 0, indices |-> IntervalEmpty]
Created(unit, indices) == [shared |-> FALSE, address |-> 0, unit |-> unit, indices |-> indices]

\* the heap and the elements array after the slots were filled
RECURSIVE FillElements(_, _, _, _)
FillElements(h, slots, k, elements) ==
    IF k > Len(slots) THEN [heap |-> h, elements |-> elements]
    ELSE IF slots[k].shared
         THEN FillElements(h, slots, k + 1, Append(elements, slots[k].address))
         ELSE FillElements(Append(h, EntryObject(slots[k].unit, slots[k].indices)), slots, k + 1,
                           Append(elements, Len(h) + 1))

\* return Loci(structure, elements) for a new elements array
NewLoci(h, structure, slots) ==
    LET filled == FillElements(h, slots, 1, <<>>)
    IN  [heap |-> Append(filled.heap, LociObject(structure, filled.elements)),
         ret |-> Len(filled.heap) + 1]

\* for the mutants: the slots are written into the elements array of the
\* Loci object at address `into` and that object is returned
NewLociInPlace(h, structure, slots, into) ==
    LET filled == FillElements(h, slots, 1, <<>>)
    IN  [heap |-> [filled.heap EXCEPT ![into].elements = filled.elements], ret |-> into]

UnitsOf(h, p) == {h[h[p].elements[k]].unit : k \in DOMAIN h[p].elements}
IndicesIn(h, p, unit) ==
    h[h[p].elements[CHOOSE k \in DOMAIN h[p].elements : h[h[p].elements[k]].unit = unit]].indices

\* Loci.union, the two loops: a new object for a unit of both operands, the
\* entry of ys for a unit of ys only, a new object for a unit of xs only
unionSlots(h, xs, ys) ==
    [k \in DOMAIN h[ys].elements |->
        LET e == h[ys].elements[k]
        IN  IF h[e].unit \in UnitsOf(h, xs)
            THEN Created(h[e].unit, OSUnion(IndicesIn(h, xs, h[e].unit), h[e].indices))
            ELSE Shared(e)]
    \o [k \in DOMAIN SelectSeq(h[xs].elements, LAMBDA e : h[e].unit \notin UnitsOf(h, ys)) |->
           LET e == SelectSeq(h[xs].elements, LAMBDA f : h[f].unit \notin UnitsOf(h, ys))[k]
           IN  Created(h[e].unit, h[e].indices)]

\* mutant of unionObjects: the merged entries are written into ys.elements
unionObjects_IntoYs(h, xs, ys) ==
    IF Len(h[xs].elements) > Len(h[ys].elements)
    THEN NewLociInPlace(h, h[ys].structure, unionSlots(h, ys, xs), xs)
    ELSE IF Len(h[xs].elements) = 0 THEN [heap |-> h, ret |-> ys]
    ELSE NewLociInPlace(h, h[xs].structure, unionSlots(h, xs, ys), ys)

unionObjects(h, xs, ys) ==
    IF Len(h[xs].elements) > Len(h[ys].elements)
    THEN (IF Len(h[ys].elements) = 0 THEN [heap |-> h, ret |-> xs]
          ELSE NewLoci(h, h[ys].structure, unionSlots(h, ys, xs)))
    ELSE IF Len(h[xs].elements) = 0 THEN [heap |-> h, ret |-> ys]
    ELSE NewLoci(h, h[xs].structure, unionSlots(h, xs, ys))

\* Loci.subtract: a new object for a unit of both operands (none when no
\* index is left), the entry of xs for a unit of xs only
subtractSlots(h, xs, ys) ==
    LET kept == SelectSeq(h[xs].elements,
                          LAMBDA e : h[e].unit \in UnitsOf(h, ys)
                                     => OSSize(OSSubtract(h[e].indices, IndicesIn(h, ys, h[e].unit))) # 0)
    IN  [k \in DOMAIN kept |->
            IF h[kept[k]].unit \in UnitsOf(h, ys)
            THEN Created(h[kept[k]].unit, OSSubtract(h[kept[k]].indices, IndicesIn(h, ys, h[kept[k]].unit)))
            ELSE Shared(kept[k])]

subtractObjects(h, xs, ys) == NewLoci(h, h[xs].structure, subtractSlots(h, xs, ys))

\* Loci.remap: loci itself for its own structure, else a new object for
\* every entry whose unit the structure holds
remapObjects(h, loci, structure) ==
    IF structure = h[loci].structure THEN [heap |-> h, ret |-> loci]
    ELSE LET kept == SelectSeq(h[loci].elements, LAMBDA e : UnitMapHas(structure, h[e].unit))
         IN  NewLoci(h, structure,
                     [k \in DOMAIN kept |->
                         LET r == remapElement(Deref(h, loci), structure,
                                               LociElement(h[kept[k]].unit, h[kept[k]].indices))
                         IN  Created(r.unit, r.indices)])

\* Loci.extendToWholeResidues: a new object for an entry of an atomic unit,
\* the entry itself for a coarse unit
extendToWholeResiduesObjects(h, loci) ==
    NewLoci(h, h[loci].structure,
            [k \in DOMAIN h[loci].elements |->
                LET e == h[loci].elements[k]
                    r == extendToWholeResiduesElement(h[loci].structure,
                                                      LociElement(h[e].unit, h[e].indices))
                IN  IF UnitMapGet(h[loci].structure, h[e].unit).kind = "atomic"
                    THEN Created(r.unit, r.indices)
                    ELSE Shared(e)])

\* Loci.extendToWholeChains: a new object for every entry
extendToWholeChainsObjects(h, loci) ==
    NewLoci(h, h[loci].structure,
            [k \in DOMAIN h[loci].elements |->
                LET e == h[loci].elements[k]
                    r == extendToWholeChainsElement(h[loci].structure,
                                                    LociElement(h[e].unit, h[e].indices))
                IN  Created(r.unit, r.indices)])

\* Query.toLoci: a new object for every unit of every group
toLociObjects(h, q, p) ==
    LET l == toLoci(q, p)
    IN  NewLoci(h, p, [k \in DOMAIN l.elements |-> Created(l.elements[k].unit, l.elements[k].indices)])

-----------------------------------------------------------------------------
(* Sequences of calls on Loci objects: the heap starts with two Loci over  *)
(* S3 and every call takes its operands among the Loci objects that exist, *)
(* results of earlier calls included.  a and b are the values of the       *)
(* operands of the last call; rLoci, rBool, rExpr and query hold what the  *)
(* last call returned and are cleared by the next one.                     *)

\* At most this many Loci objects (the two first ones included).
MaxLociObjects == 4

HeapLoci ==
    {none("S3"),
     Loci("S3", <<LociElement(1, SortedArrayOf(<<0>>))>>),
     Loci("S3", <<LociElement(1, SortedArrayOf(<<0>>)), LociElement(5, SortedArrayOf(<<0>>))>>)}

HeapOf(l, m) ==
    LET first == NewLoci(<<>>, l.structure,
                         [k \in DOMAIN l.elements |-> Created(l.elements[k].unit, l.elements[k].indices)])
    IN  NewLoci(first.heap, m.structure,
                [k \in DOMAIN m.elements |-> Created(m.elements[k].unit, m.elements[k].indices)]).heap

InitHeap ==
    /\ a \in HeapLoci
    /\ b = Loci("S3", <<LociElement(4, SortedArrayOf(<<1, 2>>)), LociElement(1, SortedArrayOf(<<1, 2>>))>>)
    /\ heap = HeapOf(a, b)
    /\ flags = NoFlags
    /\ applying = <<>>
    /\ snapshots = NoSnapshots
    /\ viewportState = [isBusy |-> FALSE, show |-> TRUE]
    /\ rMap = <<>>
    /\ basicData = NoBasicData
    /\ controlsState = [show |-> FALSE, label |-> <<>>]
    /\ dataState = NoDataState
    /\ helperCalls = <<>>
    /\ evaluated = <<>>
    /\ rValue = 0
    /\ symbolArgs = NoArgs
    /\ parent = "S3"
    /\ query = EmptyQuery
    /\ queryB = EmptyQuery
    /\ op = "none"
    /\ rLoci = none("S3")
    /\ rBool = FALSE
    /\ rUnits = <<>>
    /\ rExpr = NoExpr
    /\ rBox = EmptyBox
    /\ threw = FALSE

MayCreate == Cardinality(LociAddresses(heap)) < MaxLociObjects

\* a call of a Loci operation with one or two Loci operands that returns a Loci
Returned(name, x, y, r) ==
    /\ op' = name
    /\ a' = Deref(heap, x)
    /\ b' = Deref(heap, y)
    /\ heap' = r.heap
    /\ rLoci' = Deref(r.heap, r.ret)
    /\ rBool' = FALSE
    /\ rExpr' = NoExpr
    /\ query' = EmptyQuery
    /\ UNCHANGED <<applying, snapshots, viewportState, rMap, basicData, controlsState, dataState, helperCalls, evaluated, rValue, symbolArgs, flags, parent, queryB, rUnits, rBox, threw>>

CallUnion ==
    \E x, y \in LociAddresses(heap) :
        /\ MayCreate
        /\ heap[x].structure = heap[y].structure
        /\ Returned("union", x, y, unionObjects(heap, x, y))

CallSubtract ==
    \E x, y \in LociAddresses(heap) :
        /\ MayCreate
        /\ heap[x].structure = heap[y].structure
        /\ Returned("subtract", x, y, subtractObjects(heap, x, y))

CallRemap ==
    \E x \in LociAddresses(heap), s \in {"S3", "S3c"} :
        /\ MayCreate
        /\ Returned("remap", x, x, remapObjects(heap, x, s))

CallExtendToWholeResidues ==
    \E x \in LociAddresses(heap) :
        /\ MayCreate
        /\ Returned("extendToWholeResidues", x, x, extendToWholeResiduesObjects(heap, x))

CallExtendToWholeChains ==
    \E x \in LociAddresses(heap) :
        /\ MayCreate
        /\ Returned("extendToWholeChains", x, x, extendToWholeChainsObjects(heap, x))

CallAreIntersecting ==
    \E x, y \in LociAddresses(heap) :
        /\ heap[x].structure = heap[y].structure
        /\ op' = "areIntersecting"
        /\ a' = Deref(heap, x)
        /\ b' = Deref(heap, y)
        /\ rBool' = areIntersecting(Deref(heap, x), Deref(heap, y))
        /\ rLoci' = none("S3")
        /\ rExpr' = NoExpr
        /\ query' = EmptyQuery
        /\ UNCHANGED <<applying, snapshots, viewportState, rMap, basicData, controlsState, dataState, helperCalls, evaluated, rValue, symbolArgs, flags, heap, parent, queryB, rUnits, rBox, threw>>

CallToScriptExpression ==
    \E x \in LociAddresses(heap) :
        /\ op' = "toScriptExpression"
        /\ a' = Deref(heap, x)
        /\ rExpr' = toScriptExpression(Deref(heap, x))
        /\ rLoci' = none("S3")
        /\ rBool' = FALSE
        /\ query' = EmptyQuery
        /\ UNCHANGED <<applying, snapshots, viewportState, rMap, basicData, controlsState, dataState, helperCalls, evaluated, rValue, symbolArgs, flags, heap, b, parent, queryB, rUnits, rBox, threw>>

CallFromLoci ==
    \E x \in LociAddresses(heap) :
        /\ op' = "fromLoci"
        /\ a' = Deref(heap, x)
        /\ query' = fromLoci(Deref(heap, x))
        /\ rLoci' = none("S3")
        /\ rBool' = FALSE
        /\ rExpr' = NoExpr
        /\ UNCHANGED <<applying, snapshots, viewportState, rMap, basicData, controlsState, dataState, helperCalls, evaluated, rValue, symbolArgs, flags, heap, b, parent, queryB, rUnits, rBox, threw>>

CallToLoci ==
    /\ MayCreate
    /\ op = "fromLoci"
    /\ op' = "toLoci"
    /\ heap' = toLociObjects(heap, query, parent).heap
    /\ rLoci' = Deref(heap', Len(heap'))
    /\ UNCHANGED <<applying, snapshots, viewportState, rMap, basicData, controlsState, dataState, helperCalls, evaluated, rValue, symbolArgs, flags, a, b, parent, query, queryB, rBool, rUnits, rExpr, rBox, threw>>

NextHeap ==
    \/ CallUnion
    \/ CallSubtract
    \/ CallRemap
    \/ CallExtendToWholeResidues
    \/ CallExtendToWholeChains
    \/ CallAreIntersecting
    \/ CallToScriptExpression
    \/ CallFromLoci
    \/ CallToLoci

SpecHeap == InitHeap /\ [][NextHeap]_vars

\* the objects model the functions: the Loci a call returns denotes the
\* value of the function on the values of its operands
ObjectsAgree ==
    /\ op = "union" => rLoci = union(a, b)
    /\ op = "subtract" => rLoci = subtract(a, b)
    /\ op = "extendToWholeResidues" => rLoci = extendToWholeResidues(a)
    /\ op = "extendToWholeChains" => rLoci = extendToWholeChains(a)
    /\ op = "remap" => (rLoci = remap(a, "S3") \/ rLoci = remap(a, "S3c"))

\* C19: no call of union, subtract, remap, extendToWholeResidues,
\* extendToWholeChains, areIntersecting, toScriptExpression, Query.fromLoci or
\* Query.toLoci changes an object that exists: every Loci keeps its
\* structure, its entries in their order and their index sets.
C19_LociNeverMutated ==
    [][\A p \in DOMAIN heap : p \in DOMAIN heap' /\ heap'[p] = heap[p]]_vars

\* a Loci returned by a call that holds an entry object of an earlier Loci
\* and was itself the operand of the last call
C19_Witness ==
    /\ op \in {"union", "subtract", "extendToWholeResidues"}
    /\ Cardinality(LociAddresses(heap)) = MaxLociObjects
    /\ \E p, q \in LociAddresses(heap) :
           /\ p < q
           /\ Cardinality({o \in LociAddresses(heap) : o < p}) >= 2
           /\ Deref(heap, p) = a
           /\ \E k \in DOMAIN heap[p].elements : heap[p].elements[k] < p - Len(heap[p].elements)
           /\ \E k \in DOMAIN heap[q].elements : heap[q].elements[k] \in Range(heap[p].elements)

-----------------------------------------------------------------------------
(* The flag symbols of the MolScript runtime: core.flags.hasAny and        *)
(* core.flags.hasAll on a tested value and a test mask.                    *)

\* Flags have this many bits.
FlagBits == 4

FlagValues == 0..(2 ^ FlagBits - 1)

\* bit i of a flag value
Bit(x, i) == (x \div (2 ^ i)) % 2

\* tested & test
RECURSIVE BitAnd(_, _)
BitAnd(x, y) ==
    IF x = 0 \/ y = 0 THEN 0
    ELSE (x % 2) * (y % 2) + 2 * BitAnd(x \div 2, y \div 2)

hasAny(tested, test) ==
    IF test = 0 THEN tested # 0
    ELSE BitAnd(tested, test) # 0

\* mutant of hasAll: no case for a zero test mask, which every value matches
hasAll_NoZeroCase(tested, test) == BitAnd(tested, test) = test

hasAll(tested, test) ==
    IF test = 0 THEN tested = 0
    ELSE BitAnd(tested, test) = test

InitFlags ==
    /\ flags \in [tested : FlagValues, test : FlagValues]
    /\ applying = <<>>
    /\ snapshots = NoSnapshots
    /\ viewportState = [isBusy |-> FALSE, show |-> TRUE]
    /\ rMap = <<>>
    /\ basicData = NoBasicData
    /\ controlsState = [show |-> FALSE, label |-> <<>>]
    /\ dataState = NoDataState
    /\ helperCalls = <<>>
    /\ evaluated = <<>>
    /\ rValue = 0
    /\ symbolArgs = NoArgs
    /\ a = none("S1")
    /\ b = none("S1")
    /\ parent = "S1"
    /\ query = EmptyQuery
    /\ queryB = EmptyQuery
    /\ op = "none"
    /\ rLoci = none("S1")
    /\ rBool = FALSE
    /\ rUnits = <<>>
    /\ rExpr = NoExpr
    /\ rBox = EmptyBox
    /\ heap = <<>>
    /\ threw = FALSE

HasAny ==
    /\ op' = "hasAny"
    /\ rBool' = hasAny(flags.tested, flags.test)
    /\ UNCHANGED <<applying, snapshots, viewportState, rMap, basicData, controlsState, dataState, helperCalls, evaluated, rValue, symbolArgs, flags, heap, a, b, parent, query, queryB, rLoci, rUnits, rExpr, rBox, threw>>

HasAll ==
    /\ op' = "hasAll"
    /\ rBool' = hasAll(flags.tested, flags.test)
    /\ UNCHANGED <<applying, snapshots, viewportState, rMap, basicData, controlsState, dataState, helperCalls, evaluated, rValue, symbolArgs, flags, heap, a, b, parent, query, queryB, rLoci, rUnits, rExpr, rBox, threw>>

NextFlags == HasAny \/ HasAll

SpecFlags == InitFlags /\ [][NextFlags]_vars

\* C20: flags.hasAny with a zero test mask returns true only when the tested
\* value is zero, and with a non-zero test mask it returns true exactly when
\* the tested value and the mask have a bit in common.
C20_HasAny ==
    op = "hasAny" =>
        /\ flags.test = 0 => (rBool => flags.tested = 0)
        /\ flags.test # 0 =>
               (rBool <=> \E i \in 0..(FlagBits - 1) : Bit(flags.tested, i) = 1 /\ Bit(flags.test, i) = 1)

\* C21: flags.hasAll with a zero test mask returns true exactly when the
\* tested value is zero, and with a non-zero test mask it returns true exactly
\* when every bit of the mask is set in the tested value.
C21_HasAll ==
    op = "hasAll" =>
        /\ flags.test = 0 => (rBool <=> flags.tested = 0)
        /\ flags.test # 0 =>
               (rBool <=> \A i \in 0..(FlagBits - 1) : Bit(flags.test, i) = 1 => Bit(flags.tested, i) = 1)

\* hasAll has refused a non-zero tested value under a zero test mask
C21_Witness == op = "hasAll" /\ flags.test = 0 /\ flags.tested # 0 /\ ~rBool

-----------------------------------------------------------------------------
(* structureQuery.type.linkFlags: the flags of a list of keywords.  A       *)
(* keyword is a string, modelled as the tuple of its characters so that     *)
(* toLowerCase is a conversion; the arguments of a symbol are the values    *)
(* of its thunks in the order the symbol iterates them (xs[0..length-1]     *)
(* for positional arguments, Object.keys(xs) for named ones).               *)

\* A symbol is called with at most this many arguments.
MaxArgs == 3

\* LinkType.Flag of mol-model/structure/model/types: one bit per link type
LinkTypeFlag ==
    [None |-> 0, Covalent |-> 1, MetallicCoordination |-> 2, Hydrogen |-> 4, Ionic |-> 8,
     Sulfide |-> 16, Aromatic |-> 32, Computed |-> 64]

UpperCaseLetters == <<"A", "B", "C", "D", "E", "F", "G", "H", "I", "J", "K", "L", "M", "N", "O", "P", "Q", "R", "S", "T", "U", "V", "W", "X", "Y", "Z">>
LowerCaseLetters == <<"a", "b", "c", "d", "e", "f", "g", "h", "i", "j", "k", "l", "m", "n", "o", "p", "q", "r", "s", "t", "u", "v", "w", "x", "y", "z">>

\* String.prototype.toLowerCase on one character and on a string
toLowerCaseChar(c) ==
    IF \E i \in DOMAIN UpperCaseLetters : UpperCaseLetters[i] = c
    THEN LowerCaseLetters[CHOOSE i \in DOMAIN UpperCaseLetters : UpperCaseLetters[i] = c]
    ELSE c
toLowerCase(f) == [i \in DOMAIN f |-> toLowerCaseChar(f[i])]

\* current | flag
RECURSIVE BitOr(_, _)
BitOr(x, y) ==
    IF x = 0 THEN y
    ELSE IF y = 0 THEN x
    ELSE (IF x % 2 = 1 \/ y % 2 = 1 THEN 1 ELSE 0) + 2 * BitOr(x \div 2, y \div 2)

\* the keywords linkFlag knows, each with the name of its flag
LinkKeywords ==
    <<[keyword |-> <<"c", "o", "v", "a", "l", "e", "n", "t">>, flag |-> "Covalent"],
      [keyword |-> <<"m", "e", "t", "a", "l", "l", "i", "c">>, flag |-> "MetallicCoordination"],
      [keyword |-> <<"i", "o", "n">>, flag |-> "Ionic"],
      [keyword |-> <<"h", "y", "d", "r", "o", "g", "e", "n">>, flag |-> "Hydrogen"],
      [keyword |-> <<"s", "u", "l", "f", "i", "d", "e">>, flag |-> "Sulfide"],
      [keyword |-> <<"a", "r", "o", "m", "a", "t", "i", "c">>, flag |-> "Aromatic"],
      [keyword |-> <<"c", "o", "m", "p", "u", "t", "e", "d">>, flag |-> "Computed"]>>

\* mutant of linkFlag: the keyword is compared as it was written
linkFlag_CaseSensitive(current, f) ==
    IF \E i \in DOMAIN LinkKeywords : LinkKeywords[i].keyword = f
    THEN BitOr(current, LinkTypeFlag[LinkKeywords[CHOOSE i \in DOMAIN LinkKeywords : LinkKeywords[i].keyword = f].flag])
    ELSE current

linkFlag(current, f) ==
    IF \E i \in DOMAIN LinkKeywords : LinkKeywords[i].keyword = toLowerCase(f)
    THEN BitOr(current,
               LinkTypeFlag[LinkKeywords[CHOOSE i \in DOMAIN LinkKeywords :
                                             LinkKeywords[i].keyword = toLowerCase(f)].flag])
    ELSE current

RECURSIVE linkFlagsFrom(_, _, _)
linkFlagsFrom(xs, i, ret) ==
    IF i > Len(xs) THEN ret ELSE linkFlagsFrom(xs, i + 1, linkFlag(ret, xs[i]))

\* both branches run the same loop body over the values in iteration order
linkFlags(xs) == linkFlagsFrom(xs.values, 1, LinkTypeFlag.None)

\* keywords the symbol is called with: the known ones, some of them in
\* other cases, and unknown ones
Keywords ==
    {LinkKeywords[i].keyword : i \in DOMAIN LinkKeywords}
    \cup {<<"C", "o", "v", "a", "l", "e", "n", "t">>, <<"I", "O", "N">>, <<"h", "Y", "d", "r", "o", "g", "e", "n">>}
    \cup {<<"b", "o", "g", "u", "s">>, <<"i", "o", "n", "i", "c">>, <<>>}

ArgsOver(values, n) ==
    [named : BOOLEAN, values : UNION {[1..k -> values] : k \in 0..n}]


InitLinkFlags ==
    /\ symbolArgs \in ArgsOver(Keywords, MaxArgs)
    /\ flags = NoFlags
    /\ applying = <<>>
    /\ snapshots = NoSnapshots
    /\ viewportState = [isBusy |-> FALSE, show |-> TRUE]
    /\ rMap = <<>>
    /\ basicData = NoBasicData
    /\ controlsState = [show |-> FALSE, label |-> <<>>]
    /\ dataState = NoDataState
    /\ helperCalls = <<>>
    /\ evaluated = <<>>
    /\ rValue = 0
    /\ a = none("S1")
    /\ b = none("S1")
    /\ parent = "S1"
    /\ query = EmptyQuery
    /\ queryB = EmptyQuery
    /\ op = "none"
    /\ rLoci = none("S1")
    /\ rBool = FALSE
    /\ rUnits = <<>>
    /\ rExpr = NoExpr
    /\ rBox = EmptyBox
    /\ heap = <<>>
    /\ threw = FALSE

LinkFlags ==
    /\ op = "none"
    /\ op' = "linkFlags"
    /\ rValue' = linkFlags(symbolArgs)
    /\ threw' = FALSE
    /\ UNCHANGED <<applying, snapshots, viewportState, rMap, basicData, controlsState, dataState, helperCalls, evaluated, symbolArgs, flags, heap, rBox, a, b, parent, queryB, query, rLoci, rBool, rUnits, rExpr>>

NextLinkFlags == LinkFlags

SpecLinkFlags == InitLinkFlags /\ [][NextLinkFlags]_vars

\* two spellings of one keyword
SameIgnoringCase(f, g) ==
    /\ Len(f) = Len(g)
    /\ \A i \in DOMAIN f : toLowerCaseChar(f[i]) = toLowerCaseChar(g[i])

\* C22: linkFlags raises no error and returns exactly the flags of the
\* keywords it recognises, whatever their case, their order and their
\* repetition; an unknown keyword adds no bit, so that covalent followed by
\* bogus gives LinkType.Flag.Covalent alone.
C22_LinkFlags ==
    op = "linkFlags" =>
        /\ ~threw
        /\ rValue \in 0..127
        /\ \A i \in DOMAIN LinkKeywords :
               (BitAnd(rValue, LinkTypeFlag[LinkKeywords[i].flag]) # 0)
               <=> (\E k \in DOMAIN symbolArgs.values :
                        SameIgnoringCase(symbolArgs.values[k], LinkKeywords[i].keyword))
        /\ symbolArgs.values = <<LinkKeywords[1].keyword, <<"b", "o", "g", "u", "s">>>>
               => rValue = LinkTypeFlag.Covalent

\* linkFlags ran on a known keyword written in upper case, an unknown keyword
\* and the known keyword again
C22_Witness ==
    /\ op = "linkFlags"
    /\ symbolArgs.values = <<<<"I", "O", "N">>, <<"b", "o", "g", "u", "s">>, <<"i", "o", "n">>>>
    /\ rValue = LinkTypeFlag.Ionic

-----------------------------------------------------------------------------
(* core.logic.and and core.logic.or on argument thunks.  A thunk is        *)
(* modelled by the value it returns, and calling it is recorded in         *)
(* `evaluated`: the position (from 0) of every thunk called, in call order.*)

\* values a thunk returns, written as JavaScript literals
JsValues == {"true", "false", "0", "1", "''", "'a'"}

\* !x is true for these
Falsy(x) == x \in {"false", "0", "''"}

\* the positional loop of logic.and: xs[i](ctx) for i = 0, 1, ...
RECURSIVE andPositional(_, _, _)
andPositional(values, i, calls) ==
    IF i > Len(values) THEN [result |-> TRUE, evaluated |-> calls]
    ELSE IF Falsy(values[i]) THEN [result |-> FALSE, evaluated |-> Append(calls, i - 1)]
    ELSE andPositional(values, i + 1, Append(calls, i - 1))

\* mutant of andNamed: every thunk is called before the result is decided
andNamed_EvaluateAll(values, i, calls) ==
    [result |-> \A k \in DOMAIN values : ~Falsy(values[k]),
     evaluated |-> [k \in DOMAIN values |-> k - 1]]

\* the named loop of logic.and: xs[k](ctx) for k of Object.keys(xs)
RECURSIVE andNamed(_, _, _)
andNamed(values, i, calls) ==
    IF i > Len(values) THEN [result |-> TRUE, evaluated |-> calls]
    ELSE IF Falsy(values[i]) THEN [result |-> FALSE, evaluated |-> Append(calls, i - 1)]
    ELSE andNamed(values, i + 1, Append(calls, i - 1))

coreLogicAnd(xs) ==
    IF ~xs.named THEN andPositional(xs.values, 1, <<>>) ELSE andNamed(xs.values, 1, <<>>)

RECURSIVE orPositional(_, _, _)
orPositional(values, i, calls) ==
    IF i > Len(values) THEN [result |-> FALSE, evaluated |-> calls]
    ELSE IF ~Falsy(values[i]) THEN [result |-> TRUE, evaluated |-> Append(calls, i - 1)]
    ELSE orPositional(values, i + 1, Append(calls, i - 1))

RECURSIVE orNamed(_, _, _)
orNamed(values, i, calls) ==
    IF i > Len(values) THEN [result |-> FALSE, evaluated |-> calls]
    ELSE IF ~Falsy(values[i]) THEN [result |-> TRUE, evaluated |-> Append(calls, i - 1)]
    ELSE orNamed(values, i + 1, Append(calls, i - 1))

coreLogicOr(xs) ==
    IF ~xs.named THEN orPositional(xs.values, 1, <<>>) ELSE orNamed(xs.values, 1, <<>>)

InitLogic ==
    /\ symbolArgs \in ArgsOver(JsValues, MaxArgs)
    /\ evaluated = <<>>
    /\ flags = NoFlags
    /\ applying = <<>>
    /\ snapshots = NoSnapshots
    /\ viewportState = [isBusy |-> FALSE, show |-> TRUE]
    /\ rMap = <<>>
    /\ basicData = NoBasicData
    /\ controlsState = [show |-> FALSE, label |-> <<>>]
    /\ dataState = NoDataState
    /\ helperCalls = <<>>
    /\ rValue = 0
    /\ a = none("S1")
    /\ b = none("S1")
    /\ parent = "S1"
    /\ query = EmptyQuery
    /\ queryB = EmptyQuery
    /\ op = "none"
    /\ rLoci = none("S1")
    /\ rBool = FALSE
    /\ rUnits = <<>>
    /\ rExpr = NoExpr
    /\ rBox = EmptyBox
    /\ heap = <<>>
    /\ threw = FALSE

LogicAnd ==
    /\ op' = "logic.and"
    /\ rBool' = coreLogicAnd(symbolArgs).result
    /\ evaluated' = coreLogicAnd(symbolArgs).evaluated
    /\ UNCHANGED <<applying, snapshots, viewportState, rMap, basicData, controlsState, dataState, helperCalls, rValue, symbolArgs, flags, heap, rBox, a, b, parent, queryB, query, rLoci, rUnits, rExpr, threw>>

LogicOr ==
    /\ op' = "logic.or"
    /\ rBool' = coreLogicOr(symbolArgs).result
    /\ evaluated' = coreLogicOr(symbolArgs).evaluated
    /\ UNCHANGED <<applying, snapshots, viewportState, rMap, basicData, controlsState, dataState, helperCalls, rValue, symbolArgs, flags, heap, rBox, a, b, parent, queryB, query, rLoci, rUnits, rExpr, threw>>

NextLogic == LogicAnd \/ LogicOr

SpecLogic == InitLogic /\ [][NextLogic]_vars

Least(S) == CHOOSE x \in S : \A y \in S : x <= y

\* the positions 0 .. n-1 in order
FirstPositions(n) == [k \in 1..n |-> k - 1]

\* the arguments that decide logic.and (the falsy ones) or logic.or (the others)
Deciding(forAnd) ==
    {k \in DOMAIN symbolArgs.values : Falsy(symbolArgs.values[k]) = forAnd}

\* C23: logic.and calls its thunks in order up to and including the first
\* falsy one and returns false there, true when there is none; logic.or does
\* the same with the first truthy one and returns true there, false when
\* there is none; positional and named arguments behave alike.
C23_ShortCircuit ==
    /\ op = "logic.and" =>
           /\ rBool = (Deciding(TRUE) = {})
           /\ evaluated = FirstPositions(Least(Deciding(TRUE) \cup {Len(symbolArgs.values)}))
    /\ op = "logic.or" =>
           /\ rBool = (Deciding(FALSE) # {})
           /\ evaluated = FirstPositions(Least(Deciding(FALSE) \cup {Len(symbolArgs.values)}))

\* logic.and on named arguments stopped at a falsy second argument of three
C23_Witness ==
    /\ op = "logic.and"
    /\ symbolArgs.named
    /\ Len(symbolArgs.values) = 3
    /\ ~Falsy(symbolArgs.values[1])
    /\ Falsy(symbolArgs.values[2])
    /\ evaluated = <<0, 1>>
    /\ ~rBool

-----------------------------------------------------------------------------
(* Further claims about the Loci algebra, checked under Spec.              *)

\* C24: for two Loci that both hold entries, Loci.areIntersecting is true
\* exactly when some unit id occurs in both and the index sets the two hold
\* for it share an index, and it gives the same answer with the operands
\* exchanged.
C24_AreIntersecting ==
    (op = "areIntersecting" /\ Len(a.elements) > 0 /\ Len(b.elements) > 0) =>
        /\ rBool <=> \E id \in LociUnitIds(a) \cap LociUnitIds(b) :
                         IndicesOf(a, id) \cap IndicesOf(b, id) # {}
        /\ rBool <=> areIntersecting(b, a)

\* areIntersecting has answered false for a longer first operand that shares
\* a unit, but no index of it, with the second
C24_Witness ==
    /\ op = "areIntersecting"
    /\ Len(a.elements) > Len(b.elements)
    /\ Len(b.elements) > 0
    /\ \E id \in LociUnitIds(a) \cap LociUnitIds(b) :
           IndicesOf(a, id) # {} /\ IndicesOf(b, id) # {}
    /\ ~rBool

-----------------------------------------------------------------------------
(* The calls of getBoundary on the shared helper, checked under SpecExtend.*)

\* the Loci the last getBoundary was called on
BoundaryOperand == IF op = "getBoundary" THEN a ELSE rLoci

CallsNamed(name) == {i \in DOMAIN helperCalls : helperCalls[i].call = name}

\* the calls named `name` that pass the located element (unit id, position p)
CallsFor(name, l, id, p) ==
    {i \in CallsNamed(name) :
        /\ helperCalls[i].unit = id
        /\ helperCalls[i].element = UnitMapGet(l.structure, id).elements[p + 1]}

\* C25: getBoundary resets the helper first, then makes one boundaryStep per
\* located element, then one finishBoundaryStep, then one extendStep per
\* located element, and reads the box and the sphere last; no extendStep
\* comes before finishBoundaryStep and no boundaryStep after it, for the
\* empty Loci too.
C25_TwoPasses ==
    op \in {"getBoundary", "getBoundaryOfResidues", "getBoundaryOfChains"} =>
        LET l == BoundaryOperand
            n == Cardinality(Located(l))
        IN  /\ Len(helperCalls) = 2 * n + 4
            /\ CallsNamed("reset") = {1}
            /\ CallsNamed("boundaryStep") = 2..(n + 1)
            /\ CallsNamed("finishBoundaryStep") = {n + 2}
            /\ CallsNamed("extendStep") = (n + 3)..(2 * n + 2)
            /\ CallsNamed("getBox") \cup CallsNamed("getSphere") = {2 * n + 3, 2 * n + 4}
            /\ \A e \in Located(l) :
                   /\ Cardinality(CallsFor("boundaryStep", l, e[1], e[2])) = 1
                   /\ Cardinality(CallsFor("extendStep", l, e[1], e[2])) = 1

\* getBoundary ran on a Loci of two entries that locates at least three elements
C25_Witness ==
    /\ op = "getBoundary"
    /\ Len(a.elements) = 2
    /\ Cardinality(Located(a)) >= 3
    /\ Len(helperCalls) = 2 * Cardinality(Located(a)) + 4

-----------------------------------------------------------------------------
(* TrajectoryViewportControls: the component state {show, label} that      *)
(* update computes from the data state, and what render shows.  A model    *)
(* cell is {sourceRef, modelIndex} (sourceRef "" when it has none); the    *)
(* cell of a trajectory holds an object with `length` frames, or none.     *)

\* the variables of the Loci and symbol operations, unused by the components
ElementUnused ==
    /\ a = none("S1")
    /\ b = none("S1")
    /\ parent = "S1"
    /\ query = EmptyQuery
    /\ queryB = EmptyQuery
    /\ rLoci = none("S1")
    /\ rUnits = <<>>
    /\ rExpr = NoExpr
    /\ rBox = EmptyBox
    /\ heap = <<>>
    /\ helperCalls = <<>>
    /\ evaluated = <<>>
    /\ rValue = 0
    /\ symbolArgs = NoArgs
    /\ (flags = NoFlags)
    /\ threw = FALSE

\* the variables of getSaccharideComponentMap, unused elsewhere
PropertiesUnused ==
    /\ basicData = NoBasicData
    /\ rMap = <<>>

\* the variables of StateSnapshotViewportControls, unused elsewhere
SnapshotUnused ==
    /\ viewportState = [isBusy |-> FALSE, show |-> TRUE]
    /\ snapshots = NoSnapshots
    /\ applying = <<>>

\* the variables of TrajectoryViewportControls, unused elsewhere
TrajectoryUnused ==
    /\ dataState = NoDataState
    /\ controlsState = [show |-> FALSE, label |-> <<>>]

\* The data state holds at most this many ModelFromTrajectory cells.
MaxModels == 3

TrajectoryRefs == {"t1", "t2"}

\* state.cells.get(ref).obj: undefined, or a trajectory of `length` frames
TrajectoryObjects == {[hasObj |-> FALSE, length |-> 0], [hasObj |-> TRUE, length |-> 1],
                      [hasObj |-> TRUE, length |-> 3]}

ModelCells == [sourceRef : TrajectoryRefs \cup {""}, modelIndex : {0, 1}]

DataStates ==
    [models : UNION {[1..k -> ModelCells] : k \in 0..MaxModels},
     cells : [TrajectoryRefs -> TrajectoryObjects]]

\* `Model ${idx + 1} / ${parent.data.length}`
modelLabel(idx, length) ==
    <<"M", "o", "d", "e", "l", " ">> \o NumToStr(idx + 1) \o <<" ", "/", " ">> \o NumToStr(length)

\* this.setState(patch): the fields of the patch replace those of the state
setState(state, patch) == [f \in DOMAIN state |-> IF f \in DOMAIN patch THEN patch[f] ELSE state[f]]

\* the for loop of update over models[i..]; acc holds label, count, parents
\* and the component state
RECURSIVE updateLoop(_, _, _)
updateLoop(state, i, acc) ==
    IF i > Len(state.models) THEN acc
    ELSE LET m == state.models[i]
         IN  IF m.sourceRef = "" THEN updateLoop(state, i + 1, acc)
             ELSE IF ~state.cells[m.sourceRef].hasObj THEN updateLoop(state, i + 1, acc)
             ELSE IF state.cells[m.sourceRef].length > 1
             THEN updateLoop(state, i + 1,
                      [label |-> IF acc.label = <<>>
                                 THEN modelLabel(m.modelIndex, state.cells[m.sourceRef].length)
                                 ELSE acc.label,
                       count |-> acc.count + 1,
                       parents |-> acc.parents \cup {m.sourceRef},
                       state |-> IF m.sourceRef \in acc.parents
                                 THEN setState(acc.state, [show |-> FALSE])
                                 ELSE acc.state])
             ELSE updateLoop(state, i + 1, acc)

\* TrajectoryViewportControls.update: the component state after it
update(state, component) ==
    IF Len(state.models) = 0 THEN setState(component, [show |-> FALSE])
    ELSE LET acc == updateLoop(state, 1, [label |-> <<>>, count |-> 0, parents |-> {},
                                          state |-> component])
         IN  setState(acc.state, [show |-> acc.count > 0,
                                  label |-> IF acc.count > 1 THEN <<>> ELSE acc.label])

\* TrajectoryViewportControls.render: whether it returns the controls (not null)
render(component, isAnimating) ==
    ~(~component.show \/ (isAnimating /\ component.label = <<>>))

InitTrajectory ==
    /\ ElementUnused
    /\ SnapshotUnused
    /\ PropertiesUnused
    /\ dataState \in DataStates
    /\ controlsState \in {[show |-> FALSE, label |-> <<>>], [show |-> TRUE, label |-> modelLabel(0, 3)]}
    /\ op = "none"
    /\ rBool = FALSE

\* dataState.events.changed or behaviors.state.isAnimating fired
Update ==
    /\ op' = "update"
    /\ controlsState' = update(dataState, controlsState)
    /\ UNCHANGED <<applying, snapshots, viewportState, rMap, basicData, dataState, helperCalls, evaluated, rValue, symbolArgs, flags, heap, rBox, a, b, parent,
                   queryB, query, rLoci, rBool, rUnits, rExpr, threw>>

Render ==
    /\ op = "update"
    /\ \E isAnimating \in BOOLEAN :
           /\ op' = IF isAnimating THEN "renderAnimating" ELSE "render"
           /\ rBool' = render(controlsState, isAnimating)
    /\ UNCHANGED <<applying, snapshots, viewportState, rMap, basicData, controlsState, dataState, helperCalls, evaluated, rValue, symbolArgs, flags, heap, rBox,
                   a, b, parent, queryB, query, rLoci, rUnits, rExpr, threw>>

NextTrajectory == Update \/ Render

SpecTrajectory == InitTrajectory /\ [][NextTrajectory]_vars

\* two ModelFromTrajectory cells have the same source trajectory, which has
\* more than one frame
SharedTrajectory ==
    \E i, j \in DOMAIN dataState.models :
        /\ i # j
        /\ dataState.models[i].sourceRef = dataState.models[j].sourceRef
        /\ dataState.models[i].sourceRef # ""
        /\ dataState.cells[dataState.models[i].sourceRef].hasObj
        /\ dataState.cells[dataState.models[i].sourceRef].length > 1

\* C26: after update ran on a data state in which two ModelFromTrajectory
\* cells have the same source trajectory of more than one frame, the
\* component state has show = false and render shows no controls.
C26_SharedTrajectoryHidden ==
    /\ (op = "update" /\ SharedTrajectory) => ~controlsState.show
    /\ (op \in {"render", "renderAnimating"} /\ SharedTrajectory) => ~rBool

-----------------------------------------------------------------------------
(* getSaccharideComponentMap (mol-model-formats/structure/basic/properties)*)
(* A table is the sequence of its rows; atom_site is the sequence of the   *)
(* component names of its rows.  A saccharide component is named by its    *)
(* SNFG name, UnknownSaccharideComponent by "Unknown".                     *)

\* A table holds at most this many rows.
MaxRows == 2

\* SaccharidesSnfgMap: SNFG name -> component
SaccharidesSnfgMap == <<[k |-> "Glc", v |-> "Glc"], [k |-> "GlcNAc", v |-> "GlcNAc"]>>

\* SaccharideCompIdMap: component id -> component
SaccharideCompIdMap == <<[k |-> "GLC", v |-> "Glc"], [k |-> "NAG", v |-> "GlcNAc"]>>

UnknownSaccharideComponent == "Unknown"

\* getMoleculeType(type, id) === MoleculeType.Saccharide
IsSaccharideType(type, id) == type = "D-saccharide"

IsSnfgType(type) == type = "SNFG CARBOHYDRATE SYMBOL" \/ type = "SNFG CARB SYMBOL"

\* the first pass: the rows i.. of pdbx_chem_comp_identifier
RECURSIVE identifierPass(_, _, _)
identifierPass(rows, i, map) ==
    IF i > Len(rows) THEN map
    ELSE IF IsSnfgType(rows[i].type) /\ MapHas(SaccharidesSnfgMap, rows[i].identifier)
         THEN identifierPass(rows, i + 1,
                             MapSet(map, rows[i].comp_id, MapGet(SaccharidesSnfgMap, rows[i].identifier)))
         ELSE identifierPass(rows, i + 1, map)

\* mutant of chemCompPass: no test whether the id is in the map already
RECURSIVE chemCompPass_Overwrite(_, _, _)
chemCompPass_Overwrite(rows, i, map) ==
    IF i > Len(rows) THEN map
    ELSE IF MapHas(SaccharideCompIdMap, rows[i].id)
         THEN chemCompPass_Overwrite(rows, i + 1, MapSet(map, rows[i].id, MapGet(SaccharideCompIdMap, rows[i].id)))
         ELSE IF IsSaccharideType(rows[i].type, rows[i].id)
         THEN chemCompPass_Overwrite(rows, i + 1, MapSet(map, rows[i].id, UnknownSaccharideComponent))
         ELSE chemCompPass_Overwrite(rows, i + 1, map)

\* the second pass over the rows i.. of chem_comp
RECURSIVE chemCompPass(_, _, _)
chemCompPass(rows, i, map) ==
    IF i > Len(rows) THEN map
    ELSE IF MapHas(map, rows[i].id) THEN chemCompPass(rows, i + 1, map)
    ELSE IF MapHas(SaccharideCompIdMap, rows[i].id)
         THEN chemCompPass(rows, i + 1, MapSet(map, rows[i].id, MapGet(SaccharideCompIdMap, rows[i].id)))
         ELSE IF IsSaccharideType(rows[i].type, rows[i].id)
         THEN chemCompPass(rows, i + 1, MapSet(map, rows[i].id, UnknownSaccharideComponent))
         ELSE chemCompPass(rows, i + 1, map)

\* getUniqueComponentNames(data)
getUniqueComponentNames(data) == {data.atom_site[i] : i \in DOMAIN data.atom_site}

\* the second pass without chem_comp rows: SaccharideCompIdMap.forEach
RECURSIVE compIdPass(_, _, _)
compIdPass(uniqueNames, j, map) ==
    IF j > Len(SaccharideCompIdMap) THEN map
    ELSE IF ~MapHas(map, SaccharideCompIdMap[j].k) /\ SaccharideCompIdMap[j].k \in uniqueNames
         THEN compIdPass(uniqueNames, j + 1, MapSet(map, SaccharideCompIdMap[j].k, SaccharideCompIdMap[j].v))
         ELSE compIdPass(uniqueNames, j + 1, map)

getSaccharideComponentMap(data) ==
    LET first == IF Len(data.pdbx_chem_comp_identifier) > 0
                 THEN identifierPass(data.pdbx_chem_comp_identifier, 1, <<>>)
                 ELSE <<>>
    IN  IF Len(data.chem_comp) > 0
        THEN chemCompPass(data.chem_comp, 1, first)
        ELSE compIdPass(getUniqueComponentNames(data), 1, first)

RowsOver(R, n) == UNION {[1..k -> R] : k \in 0..n}

IdentifierRows ==
    [comp_id : {"GLC", "XYZ"},
     type : {"SNFG CARBOHYDRATE SYMBOL", "SNFG CARB SYMBOL", "SYSTEMATIC NAME"},
     identifier : {"GlcNAc", "Bogus"}]

ChemCompRows == [id : {"GLC", "NAG", "XYZ"}, type : {"D-saccharide", "non-polymer"}]

InitSaccharide ==
    /\ ElementUnused
    /\ SnapshotUnused
    /\ TrajectoryUnused
    /\ basicData \in [pdbx_chem_comp_identifier : RowsOver(IdentifierRows, MaxRows),
                      chem_comp : RowsOver(ChemCompRows, MaxRows),
                      atom_site : {<<>>, <<"GLC">>, <<"NAG", "GLC", "XYZ">>}]
    /\ rMap = <<>>
    /\ op = "none"
    /\ rBool = FALSE

GetSaccharideComponentMap ==
    /\ op = "none"
    /\ op' = "getSaccharideComponentMap"
    /\ rMap' = getSaccharideComponentMap(basicData)
    /\ UNCHANGED <<applying, snapshots, viewportState, basicData, controlsState, dataState, helperCalls, evaluated, rValue, symbolArgs, flags,
                   heap, rBox, a, b, parent, queryB, query, rLoci, rBool, rUnits, rExpr, threw>>

NextSaccharide == GetSaccharideComponentMap

SpecSaccharide == InitSaccharide /\ [][NextSaccharide]_vars

\* the rows of pdbx_chem_comp_identifier that map component id c
SnfgRows(c) ==
    {i \in DOMAIN basicData.pdbx_chem_comp_identifier :
        /\ basicData.pdbx_chem_comp_identifier[i].comp_id = c
        /\ IsSnfgType(basicData.pdbx_chem_comp_identifier[i].type)
        /\ MapHas(SaccharidesSnfgMap, basicData.pdbx_chem_comp_identifier[i].identifier)}

\* what the second pass gives component id c: "" when it does not add it
SecondPass(c) ==
    IF Len(basicData.chem_comp) > 0
    THEN LET rows == {i \in DOMAIN basicData.chem_comp : basicData.chem_comp[i].id = c}
         IN  IF rows = {} THEN ""
             ELSE IF MapHas(SaccharideCompIdMap, c) THEN MapGet(SaccharideCompIdMap, c)
             ELSE IF \E i \in rows : IsSaccharideType(basicData.chem_comp[i].type, c)
             THEN UnknownSaccharideComponent
             ELSE ""
    ELSE IF MapHas(SaccharideCompIdMap, c) /\ c \in getUniqueComponentNames(basicData)
         THEN MapGet(SaccharideCompIdMap, c)
         ELSE ""

\* C27: a component id that an SNFG identifier row maps keeps the component
\* of (the last of) these rows whatever the second pass holds for it; any
\* other id is in the map exactly when the second pass adds it (from
\* chem_comp, or from SaccharideCompIdMap for the names of atom_site when
\* chem_comp is empty), with the component of the second pass; every id is
\* in the map once.
C27_IdentifierPassFirst ==
    op = "getSaccharideComponentMap" =>
        /\ \A i, j \in DOMAIN rMap : rMap[i].k = rMap[j].k => i = j
        /\ \A c \in {"GLC", "NAG", "XYZ"} :
               IF SnfgRows(c) # {}
               THEN /\ MapHas(rMap, c)
                    /\ MapGet(rMap, c) =
                           MapGet(SaccharidesSnfgMap,
                                  basicData.pdbx_chem_comp_identifier[
                                      CHOOSE i \in SnfgRows(c) : \A j \in SnfgRows(c) : j <= i].identifier)
               ELSE IF SecondPass(c) # ""
               THEN MapHas(rMap, c) /\ MapGet(rMap, c) = SecondPass(c)
               ELSE ~MapHas(rMap, c)

\* GLC was mapped to GlcNAc by an identifier row and chem_comp holds GLC,
\* which SaccharideCompIdMap maps to Glc; the second pass added another id
C27_Witness ==
    /\ op = "getSaccharideComponentMap"
    /\ SnfgRows("GLC") # {}
    /\ SecondPass("GLC") = "Glc"
    /\ Len(basicData.chem_comp) > 0
    /\ MapGet(rMap, "GLC") = "GlcNAc"
    /\ Len(rMap) = 2

-----------------------------------------------------------------------------
(* core.math.sub on numeric arguments, positional or named.                *)

NumValues == -2..3

\* ret -= xs[i](ctx) for the values i..
RECURSIVE subtractFrom(_, _, _)
subtractFrom(values, i, ret) ==
    IF i > Len(values) THEN ret ELSE subtractFrom(values, i + 1, ret - values[i])

\* the positional branch; xs[0](ctx) raises a TypeError when there is no argument
subPositional(values) ==
    IF Len(values) = 0 THEN [threw |-> TRUE, ret |-> 0]
    ELSE IF Len(values) = 1 THEN [threw |-> FALSE, ret |-> -values[1]]
    ELSE [threw |-> FALSE, ret |-> subtractFrom(values, 2, values[1])]

\* the named branch: `if (keys.length === 1)` governs only the assignment
\* of ret that follows it, and the loop starts at the second key
subNamed(values) ==
    [threw |-> FALSE,
     ret |-> subtractFrom(values, 2, IF Len(values) = 1 THEN values[1] ELSE 0)]

mathSub(xs) == IF ~xs.named THEN subPositional(xs.values) ELSE subNamed(xs.values)

InitMath ==
    /\ symbolArgs \in ArgsOver(NumValues, MaxArgs)
    /\ a = none("S1")
    /\ b = none("S1")
    /\ parent = "S1"
    /\ query = EmptyQuery
    /\ queryB = EmptyQuery
    /\ rLoci = none("S1")
    /\ rUnits = <<>>
    /\ rExpr = NoExpr
    /\ rBox = EmptyBox
    /\ heap = <<>>
    /\ helperCalls = <<>>
    /\ evaluated = <<>>
    /\ rValue = 0
    /\ (flags = NoFlags)
    /\ threw = FALSE
    /\ PropertiesUnused
    /\ TrajectoryUnused
    /\ op = "none"
    /\ SnapshotUnused
    /\ rBool = FALSE

MathSub ==
    /\ op = "none"
    /\ op' = "math.sub"
    /\ rValue' = mathSub(symbolArgs).ret
    /\ threw' = mathSub(symbolArgs).threw
    /\ UNCHANGED <<applying, snapshots, viewportState, rMap, basicData, controlsState, dataState, helperCalls, evaluated, symbolArgs, flags,
                   heap, rBox, a, b, parent, queryB, query, rLoci, rBool, rUnits, rExpr>>

NextMath == MathSub

SpecMath == InitMath /\ [][NextMath]_vars

\* x0 - x1 - ... - xn
RECURSIVE Difference(_, _)
Difference(values, n) ==
    IF n = 1 THEN values[1] ELSE Difference(values, n - 1) - values[n]

\* C28: math.sub of one argument x is -x and of arguments x0, x1, ..., xn is
\* x0 - x1 - ... - xn, for positional and for named arguments alike.
C28_MathSub ==
    (op = "math.sub" /\ Len(symbolArgs.values) >= 1) =>
        /\ ~threw
        /\ rValue = IF Len(symbolArgs.values) = 1 THEN -symbolArgs.values[1]
                    ELSE Difference(symbolArgs.values, Len(symbolArgs.values))

-----------------------------------------------------------------------------
(* Query.areEqual and the hash, checked under SpecEqual.                   *)

\* C29: Query.areEqual depends on the elements only: queries with the same
\* elements are equal whatever their hashes, replacing the hash of an
\* operand does not change the answer, every query equals itself and the
\* answer is the same with the operands exchanged.
C29_AreEqualIgnoresHash ==
    (op = "areEqual") =>
        /\ query.elements = queryB.elements => rBool
        /\ \A h \in {-1, 101, 301} :
               /\ areEqual([query EXCEPT !.hash = h], queryB) = rBool
               /\ areEqual(query, [queryB EXCEPT !.hash = h]) = rBool
        /\ areEqual(query, query)
        /\ areEqual(queryB, queryB)
        /\ areEqual(queryB, query) = rBool

\* two queries with elements, built over different roots, compared equal
C29_Witness ==
    /\ op = "areEqual"
    /\ query.hash = 101
    /\ queryB.hash = 301
    /\ Len(query.elements) = 2
    /\ rBool

-----------------------------------------------------------------------------
(* StateSnapshotViewportControls: the component state {isBusy, show}, the  *)
(* snapshot manager's state, and the snapshot Apply commands that update   *)
(* dispatched and that have not completed.  update is an async function:   *)
(* its part before the await runs in the handler that calls it, its part   *)
(* after the await (ApplyCompleted) when the command completes.            *)

\* At most this many Apply commands are in flight.
MaxApplies == 2

SnapshotIds == {"s1", "s2", "s3"}

\* the component, the manager and the commands in flight, as handlers pass them on
Controls(view, snaps, inFlight) == [view |-> view, snaps |-> snaps, applying |-> inFlight]

\* snapshots.getNextId(id, dir): the id of the entry before or after `id`,
\* around the ends; the last or first entry without `id`; "" for undefined
getNextId(snaps, id, dir) ==
    LET len == Len(snaps.entries)
    IN  IF id = ""
        THEN (IF len = 0 THEN "" ELSE snaps.entries[IF dir = -1 THEN len ELSE 1])
        ELSE IF ~\E i \in 1..len : snaps.entries[i] = id THEN ""
        ELSE snaps.entries[(((CHOOSE i \in 1..len : snaps.entries[i] = id) - 1 + dir + len) % len) + 1]

\* update(id) up to its await: isBusy is set and the Apply is dispatched
updateSnapshot(c, id) ==
    Controls(setState(c.view, [isBusy |-> TRUE]), c.snaps, Append(c.applying, id))

\* prev (dir = -1) and next (dir = 1)
step(c, dir) ==
    IF getNextId(c.snaps, c.snaps.current, dir) # ""
    THEN updateSnapshot(c, getNextId(c.snaps, c.snaps.current, dir))
    ELSE c

\* change: the select chose `value`
change(c, value) == IF value = "none" THEN c ELSE updateSnapshot(c, value)

\* if (snapshots.state.isPlaying) snapshots.stop()
stopped(c) == Controls(c.view, [c.snaps EXCEPT !.isPlaying = FALSE], c.applying)

keyUp(c, e) ==
    IF ~e.ctrlKey \/ c.view.isBusy \/ ~e.onBody THEN c
    ELSE CASE e.keyCode = 37 -> step(stopped(c), -1)
           [] e.keyCode = 38 ->
                  IF Len(c.snaps.entries) = 0 THEN stopped(c)
                  ELSE updateSnapshot(stopped(c), c.snaps.entries[1])
           [] e.keyCode = 39 -> step(stopped(c), 1)
           [] e.keyCode = 40 ->
                  IF Len(c.snaps.entries) = 0 THEN stopped(c)
                  ELSE updateSnapshot(stopped(c), c.snaps.entries[Len(c.snaps.entries)])
           [] OTHER -> c

\* render: the select and the prev/next buttons are shown and enabled
selectEnabled(c) ==
    /\ ~(Len(c.snaps.entries) < 2 \/ ~c.view.show)
    /\ ~(c.view.isBusy \/ c.snaps.isPlaying)

Current == Controls(viewportState, snapshots, applying)

Becomes(c) ==
    /\ viewportState' = c.view
    /\ snapshots' = c.snaps
    /\ applying' = c.applying

SnapshotFrame ==
    UNCHANGED <<rMap, basicData, controlsState, dataState, helperCalls, evaluated, rValue, symbolArgs, flags,
                heap, rBox, a, b, parent, queryB, query, rLoci, rBool, rUnits, rExpr, threw>>

InitSnapshots ==
    /\ ElementUnused
    /\ PropertiesUnused
    /\ TrajectoryUnused
    /\ viewportState = [isBusy |-> FALSE, show |-> TRUE]
    /\ snapshots \in [entries : {<<>>, <<"s1", "s2">>, <<"s1", "s2", "s3">>},
                      current : SnapshotIds \cup {""},
                      isPlaying : BOOLEAN]
    /\ snapshots.current \in {snapshots.entries[i] : i \in DOMAIN snapshots.entries} \cup {""}
    /\ applying = <<>>
    /\ op = "none"
    /\ rBool = FALSE

\* a keyup event on the window
KeyUp ==
    /\ Len(applying) < MaxApplies
    /\ \E e \in [ctrlKey : BOOLEAN, keyCode : {13, 37, 38, 39, 40}, onBody : BOOLEAN] :
           Becomes(keyUp(Current, e))
    /\ op' = "keyUp"
    /\ SnapshotFrame

\* a click on the enabled Previous State button
Prev ==
    /\ Len(applying) < MaxApplies
    /\ selectEnabled(Current)
    /\ Becomes(step(Current, -1))
    /\ op' = "prev"
    /\ SnapshotFrame

\* a click on the enabled Next State button
NextSnapshot ==
    /\ Len(applying) < MaxApplies
    /\ selectEnabled(Current)
    /\ Becomes(step(Current, 1))
    /\ op' = "next"
    /\ SnapshotFrame

\* a choice in the enabled select
Change ==
    /\ Len(applying) < MaxApplies
    /\ selectEnabled(Current)
    /\ \E value \in {snapshots.entries[i] : i \in DOMAIN snapshots.entries}
                    \cup (IF snapshots.current = "" THEN {"none"} ELSE {}) :
           Becomes(change(Current, value))
    /\ op' = "change"
    /\ SnapshotFrame

\* behaviors.state.isUpdating emitted a value
IsUpdating ==
    /\ \E isBusy \in BOOLEAN : viewportState' = setState(viewportState, [isBusy |-> isBusy])
    /\ op' = "isUpdating"
    /\ UNCHANGED <<snapshots, applying>>
    /\ SnapshotFrame

\* behaviors.state.isAnimating emitted a value
IsAnimating ==
    /\ \E isBusy \in BOOLEAN : viewportState' = setState(viewportState, [isBusy |-> isBusy])
    /\ op' = "isAnimating"
    /\ UNCHANGED <<snapshots, applying>>
    /\ SnapshotFrame

\* an Apply completed: the snapshot is current and update resumes after its await
ApplyCompleted ==
    /\ \E i \in DOMAIN applying :
           /\ snapshots' = [snapshots EXCEPT !.current = applying[i]]
           /\ applying' = [k \in 1..(Len(applying) - 1) |-> IF k < i THEN applying[k] ELSE applying[k + 1]]
    /\ viewportState' = setState(viewportState, [isBusy |-> FALSE])
    /\ op' = "applyCompleted"
    /\ SnapshotFrame

NextSnapshots ==
    \/ KeyUp
    \/ Prev
    \/ NextSnapshot
    \/ Change
    \/ IsUpdating
    \/ IsAnimating
    \/ ApplyCompleted

SpecSnapshots == InitSnapshots /\ [][NextSnapshots]_vars

\* C30: while a snapshot Apply is in flight isBusy is true and no second
\* Apply is dispatched; isBusy is false once the Apply has completed.
C30_OneApplyInFlight ==
    /\ Len(applying) <= 1
    /\ Len(applying) = 1 => viewportState.isBusy
    /\ (op = "applyCompleted" /\ applying = <<>>) => ~viewportState.isBusy

=============================================================================
